---- MODULE Spec2Model ----
(***************************************************************************)
(* A model of src/src/ser.rs, the Hjson serializer: the Serializer and     *)
(* Compound visitor, the MapKeySerializer, the default (Compact) Formatter *)
(* and the PrettyFormatter with its string quoting-style classifier and    *)
(* the escape encoder.                                                     *)
(*                                                                         *)
(* Text is modelled as it is in the program: a &str is a sequence of       *)
(* Unicode scalar values for the regular expressions and the sequence of   *)
(* its UTF-8 bytes for the writers.  The sink is the sequence of bytes     *)
(* written so far.                                                         *)
(***************************************************************************)
EXTENDS Integers, Sequences, FiniteSets, TLC

VARIABLES
    mode,            \* "Compact" | "Pretty": the Formatter of the Serializer
    overflow_checks, \* the build: TRUE panics on usize overflow, FALSE wraps
    fail_at,         \* index of the write_all call the sink fails, -1: never
    st,              \* sink and Formatter state, see InitSt
    stack,           \* the open Compound frames and handlers, innermost last
    ops,             \* number of Serializer operations performed so far
    last,            \* the last operation and what it was given (history)
    input            \* the string under test (scalar values), see SpecStr

vars == <<mode, overflow_checks, fail_at, st, stack, ops, last, input>>

(***************************************************************************)
(* Bounds of the model.                                                    *)
(***************************************************************************)
\* longest string under test, in tokens of the alphabets below
MaxLen == 3
\* deepest nesting of frames
MaxDepth == 2
\* most Serializer operations in one encode
MaxOps == 5
\* latest write of the sink that can be the one that fails, counted from 0
MaxFail == 5

(***************************************************************************)
(* Bytes and machine arithmetic.                                           *)
(***************************************************************************)
RECURSIVE BitAnd(_, _)
BitAnd(a, b) ==
    IF a = 0 \/ b = 0 THEN 0
    ELSE (a % 2) * (b % 2) + 2 * BitAnd(a \div 2, b \div 2)

RECURSIVE BitOr(_, _)
BitOr(a, b) ==
    IF a = 0 THEN b
    ELSE IF b = 0 THEN a
    ELSE (IF (a % 2) + (b % 2) > 0 THEN 1 ELSE 0) + 2 * BitOr(a \div 2, b \div 2)

RECURSIVE Pow2(_)
Pow2(n) == IF n = 0 THEN 1 ELSE 2 * Pow2(n - 1)

Shr(x, n) == x \div Pow2(n)
\* << on a u8 and on a u16: the bits shifted out are lost
Shl8(x, n) == (x * Pow2(n)) % 256
Shl16(x, n) == (x * Pow2(n)) % 65536

SubSeqFrom(s, i) == SubSeq(s, i, Len(s))

RECURSIVE Flatten(_)
Flatten(ss) == IF ss = <<>> THEN <<>> ELSE Head(ss) \o Flatten(Tail(ss))

RECURSIVE Repeat(_, _)
Repeat(s, n) == IF n <= 0 THEN <<>> ELSE s \o Repeat(s, n - 1)

(***************************************************************************)
(* str::as_bytes / char::encode_utf8: the UTF-8 bytes of a scalar value    *)
(* and of a string.                                                        *)
(***************************************************************************)
encode_utf8(c) ==
    IF c < \h80 THEN <<c>>
    ELSE IF c < \h800 THEN <<\hC0 + (c \div 64), \h80 + (c % 64)>>
    ELSE IF c < \h10000 THEN
        <<\hE0 + (c \div 4096), \h80 + ((c \div 64) % 64), \h80 + (c % 64)>>
    ELSE <<\hF0 + (c \div 262144), \h80 + ((c \div 4096) % 64),
           \h80 + ((c \div 64) % 64), \h80 + (c % 64)>>

RECURSIVE as_bytes(_)
as_bytes(s) == IF s = <<>> THEN <<>> ELSE encode_utf8(Head(s)) \o as_bytes(Tail(s))

(***************************************************************************)
(* The sink and the Formatter state.  err is "none" while the encode runs. *)
(***************************************************************************)
None == 0

InitSt ==
    [ out            |-> <<>>,     \* bytes the sink has received
      writes         |-> 0,        \* write_all calls that succeeded
      err            |-> "none",   \* none | io | key | panic | hang
      current_indent |-> 0,
      has_value      |-> FALSE,
      in_object      |-> FALSE,
      next_bracket   |-> None,
      calls          |-> <<>>,     \* the Formatter's structural calls, in order
      brackets       |-> <<>> ]    \* next_bracket at the return of each call

(***************************************************************************)
(* try! and ?: once a call has returned an error the rest of the handler   *)
(* does not run.  Every operator that writes to the sink or assigns to a   *)
(* field of the formatter therefore leaves a state with an error as it is, *)
(* and a handler is the composition of its calls in the order of the code. *)
(***************************************************************************)
\* a write whose failure does not stop the writes that follow it
write_all_after_failure(s, bytes) ==
    IF s.writes = fail_at /\ s.err = "none" THEN [s EXCEPT !.err = "io"]
    ELSE [s EXCEPT !.out = @ \o bytes, !.writes = @ + 1]

\* io::Write::write_all on the sink: nothing is written, and nothing can fail,
\* when the buffer is empty
write_all(s, bytes) ==
    IF s.err # "none" \/ bytes = <<>> THEN s
    ELSE IF s.writes = fail_at THEN [s EXCEPT !.err = "io"]
    ELSE [s EXCEPT !.out = @ \o bytes, !.writes = @ + 1]

Call(s, name) == [s EXCEPT !.calls = Append(@, name)]

(***************************************************************************)
(* The escape table.                                                       *)
(***************************************************************************)
BB == 98
TT == 116
NN == 110
FF == 102
RR == 114
QU == 34
BS == 92
U == 117
UU == 1

ESCAPE(b) ==
    IF b = \h08 THEN BB
    ELSE IF b = \h09 THEN TT
    ELSE IF b = \h0A THEN NN
    ELSE IF b = \h0C THEN FF
    ELSE IF b = \h0D THEN RR
    ELSE IF b < \h20 THEN U
    ELSE IF b = \h22 THEN QU
    ELSE IF b = \h5C THEN BS
    ELSE IF b >= \h80 THEN UU
    ELSE 0

HEX_DIGITS == <<48, 49, 50, 51, 52, 53, 54, 55, 56, 57, 97, 98, 99, 100, 101, 102>>

Hex(n) == HEX_DIGITS[n + 1]

\* the code points write_char_escape replaces by \uXXXX
EscapedRange(ch) ==
    \/ ch \in \h7f..\h9f
    \/ ch = \had
    \/ ch \in \h0600..\h0604
    \/ ch = \h070f
    \/ ch = \h17b4
    \/ ch = \h17b5
    \/ ch \in \h200c..\h200f
    \/ ch \in \h2028..\h202f
    \/ ch \in \h2060..\h206f
    \/ ch = \hfeff
    \/ ch \in \hfff0..\hffff

\* an escape of the low byte of the code point only
unicode_escape_of_low_byte(ch) ==
    <<BS, U, 48, 48, Hex(BitAnd(Shr(ch, 4), 15)), Hex(BitAnd(ch, 15))>>

unicode_escape(ch) ==
    <<BS, U, Hex(Shr(ch, 12)), Hex(BitAnd(Shr(ch, 8), 15)),
      Hex(BitAnd(Shr(ch, 4), 15)), Hex(BitAnd(ch, 15))>>

(***************************************************************************)
(* Formatter::write_char_escape: the bytes written for the escape decision *)
(* that starts at bytes[0], and the number of input bytes it covers.       *)
(***************************************************************************)
char_escape(bytes) ==
    LET b0 == bytes[1]
        b1 == bytes[2]
        b2 == bytes[3]
        b3 == bytes[4]
        n  == Len(bytes)
        \* let mut ch: u16 = bytes[0]; if bytes.len() >= 2 { ch <<= 8; ch |= bytes[1] }
        ch == IF n >= 2 THEN BitOr(Shl16(b0, 8), b1) ELSE b0
        ch2 == BitOr(BitAnd(b0, Shl16(31, 6)), BitAnd(b1, 63))
        ch3 == BitOr(Shl16(BitOr(Shl8(b0, 4), BitAnd(Shr(b1, 2), 15)), 8),
                     BitOr(BitAnd(Shl8(b1, 6), 192), BitAnd(b2, 63)))
        e == ESCAPE(b0)
    IN  IF EscapedRange(ch) THEN
            [escape |-> unicode_escape(ch), bytes_read |-> IF n >= 2 THEN 2 ELSE 1]
        ELSE IF e = BB THEN [escape |-> <<BS, BB>>, bytes_read |-> 1]
        ELSE IF e = TT THEN [escape |-> <<BS, TT>>, bytes_read |-> 1]
        ELSE IF e = NN THEN [escape |-> <<BS, NN>>, bytes_read |-> 1]
        ELSE IF e = FF THEN [escape |-> <<BS, FF>>, bytes_read |-> 1]
        ELSE IF e = RR THEN [escape |-> <<BS, RR>>, bytes_read |-> 1]
        ELSE IF e = QU THEN [escape |-> <<BS, QU>>, bytes_read |-> 1]
        ELSE IF e = BS THEN [escape |-> <<BS, BS>>, bytes_read |-> 1]
        ELSE IF e = U THEN
            [escape |-> <<BS, U, 48, 48, Hex(Shr(b0, 4)), Hex(BitAnd(b0, 15))>>,
             bytes_read |-> 1]
        ELSE IF Shr(b0, 5) = 6 /\ n >= 2 /\ Shr(b1, 6) = 2 THEN
            [escape |-> IF EscapedRange(ch2) THEN unicode_escape(ch2)
                        ELSE SubSeq(bytes, 1, 2),
             bytes_read |-> 2]
        ELSE IF Shr(b0, 4) = 14 /\ n >= 3 /\ Shr(b1, 6) = 2 /\ Shr(b2, 6) = 2 THEN
            [escape |-> IF EscapedRange(ch3) THEN unicode_escape(ch3)
                        ELSE SubSeq(bytes, 1, 3),
             bytes_read |-> 3]
        ELSE IF Shr(b0, 3) = 30 /\ n >= 4 /\ Shr(b1, 6) = 2 /\ Shr(b2, 6) = 2
                /\ Shr(b3, 6) = 2 THEN
            [escape |-> <<BS, U, 123,
                          Hex(BitAnd(Shr(b0, 2), 1)),
                          Hex(BitOr(BitAnd(Shl8(b0, 2), 12), BitAnd(Shr(b1, 4), 3))),
                          Hex(BitAnd(b1, 15)),
                          Hex(BitAnd(Shr(b2, 2), 15)),
                          Hex(BitOr(BitAnd(Shl8(b2, 2), 12), BitAnd(Shr(b3, 4), 3))),
                          Hex(BitAnd(b3, 15)),
                          125>>,
             bytes_read |-> 4]
        ELSE [escape |-> SubSeq(bytes, 1, 1), bytes_read |-> 1]

write_char_escape(s, bytes) == write_all(s, char_escape(bytes).escape)

(***************************************************************************)
(* The copy loop of write_string and write_member_string: i, start and     *)
(* skip are the loop's variables (i counts from 0 as in the source).       *)
(* The result is the sink after the loop and the final value of start.     *)
(***************************************************************************)
\* a copy loop that does not skip the bytes an escape decision has covered
RECURSIVE escape_loop_without_skip(_, _, _, _, _)
escape_loop_without_skip(s, bytes, i, start, skip) ==
    IF s.err # "none" \/ i = Len(bytes) THEN [s |-> s, start |-> start]
    ELSE IF ESCAPE(bytes[i + 1]) = 0
    THEN escape_loop_without_skip(s, bytes, i + 1, start, skip)
    ELSE escape_loop_without_skip(
             write_char_escape(IF start < i THEN write_all(s, SubSeq(bytes, start + 1, i))
                               ELSE s,
                               SubSeqFrom(bytes, i + 1)),
             bytes, i + 1, i + 1, skip)

RECURSIVE escape_loop(_, _, _, _, _)
escape_loop(s, bytes, i, start, skip) ==
    IF s.err # "none" \/ i = Len(bytes) THEN [s |-> s, start |-> start]
    ELSE IF skip > 1 THEN escape_loop(s, bytes, i + 1, i + 1, skip - 1)
    ELSE IF ESCAPE(bytes[i + 1]) = 0 THEN escape_loop(s, bytes, i + 1, start, skip)
    ELSE LET s1 == IF start < i THEN write_all(s, SubSeq(bytes, start + 1, i)) ELSE s
             s2 == write_char_escape(s1, SubSeqFrom(bytes, i + 1))
         IN  escape_loop(s2, bytes, i + 1, i + 1,
                         char_escape(SubSeqFrom(bytes, i + 1)).bytes_read)

\* the quoted, escaped form: `"`, the copy loop, the rest, `"`
\* the rest after the loop r: if start != bytes.len() { write bytes[start..] }
write_rest(r, bytes) ==
    IF r.start # Len(bytes) THEN write_all(r.s, SubSeqFrom(bytes, r.start + 1)) ELSE r.s

write_escaped(s, bytes) ==
    write_all(write_rest(escape_loop(write_all(s, <<QU>>), bytes, 0, 0, 0), bytes), <<QU>>)

\* Formatter::write_string and Formatter::write_member_string (the defaults,
\* which CompactFormatter inherits)
\* a write_string that copies the string as it is
write_string_unquoted(s, string) == write_all(s, as_bytes(string))

Formatter_write_string(s, string) == write_escaped(s, as_bytes(string))

Formatter_write_member_string(s, string) == Formatter_write_string(s, string)

(***************************************************************************)
(* The regular expressions of the classifier.  A match is computed as the  *)
(* set of positions (number of scalar values consumed) a pattern can       *)
(* reach, which is what backtracking explores.  \s and \d are Unicode      *)
(* classes in the regex crate.                                             *)
(***************************************************************************)
\* \s: the White_Space code points
IsSpace(c) ==
    \/ c \in \h09..\h0d
    \/ c \in {\h20, \h85, \ha0, \h1680, \h2028, \h2029, \h202f, \h205f, \h3000}
    \/ c \in \h2000..\h200a

\* \d: the decimal digits (ASCII and the Arabic-Indic block of category Nd)
IsDigit(c) == c \in \h30..\h39 \/ c \in \h0660..\h0669

IsCtrl(c) == c \in \h00..\h1f

\* the character classes of the patterns, by name
In(cls, c) ==
    CASE cls = "digit"   -> IsDigit(c)
      [] cls = "1-9"     -> c \in \h31..\h39
      [] cls = "space"   -> IsSpace(c)
      \* [,}\]#/]
      [] cls = "delim"   -> c \in {44, 125, 93, 35, 47}
      \* [^\x00-\x1f\s"'{}\[\],:/#]
      [] cls = "bare"    -> ~IsCtrl(c) /\ ~IsSpace(c)
                            /\ c \notin {34, 39, 123, 125, 91, 93, 44, 58, 47, 35}
      \* [^/*]
      [] cls = "nostar"  -> c \notin {47, 42}
      \* [^\x00-\x1f\t\n/*]
      [] cls = "slash2"  -> ~IsCtrl(c) /\ c \notin {47, 42}
      \* [^\x00-\x1f\t\n]
      [] cls = "mid"     -> ~IsCtrl(c)
      \* [^\x00-\x1f\s"]
      [] cls = "end"     -> ~IsCtrl(c) /\ ~IsSpace(c) /\ c # 34
      \* [^\t\n"]
      [] cls = "dq"      -> c \notin {9, 10, 34}
      \* [\s\x08]
      [] cls = "ws"      -> IsSpace(c) \/ c = 8
      \* [^']
      [] cls = "noapos"  -> c # 39
      \* [^\x00-\x1f\s"'{}\[\],:/*]
      [] cls = "member2" -> ~IsCtrl(c) /\ ~IsSpace(c)
                            /\ c \notin {34, 39, 123, 125, 91, 93, 44, 58, 47, 42}
      [] OTHER           -> FALSE

\* one character of class cls, from each position of P
Step(s, P, cls) == {q + 1 : q \in {x \in P : x < Len(s) /\ In(cls, s[x + 1])}}

\* the literal character c
Lit(s, P, c) == {q + 1 : q \in {x \in P : x < Len(s) /\ s[x + 1] = c}}

\* the literal word w
RECURSIVE Word(_, _, _)
Word(s, P, w) == IF w = <<>> THEN P ELSE Word(s, Lit(s, P, Head(w)), Tail(w))

\* cls*
RECURSIVE Star(_, _, _)
Star(s, P, cls) ==
    IF Step(s, P, cls) \subseteq P THEN P ELSE Star(s, P \cup Step(s, P, cls), cls)

\* cls+
Plus(s, P, cls) == Star(s, Step(s, P, cls), cls)

\* -?(?:0|[1-9]\d*)(?:\.\d+)?(?:[eE][+-]?\d+)?
\* the parts of the number, each from the positions P the part before it reaches
NumberSign(s, P) == P \cup Lit(s, P, 45)
NumberInt(s, P) == Lit(s, P, 48) \cup Star(s, Step(s, P, "1-9"), "digit")
NumberFrac(s, P) == P \cup Plus(s, Lit(s, P, 46), "digit")
NumberExpSign(s, P) == P \cup Lit(s, P, 43) \cup Lit(s, P, 45)
NumberExp(s, P) ==
    P \cup Plus(s, NumberExpSign(s, Lit(s, P, 101) \cup Lit(s, P, 69)), "digit")

NumberEnds(s) == NumberExp(s, NumberFrac(s, NumberInt(s, NumberSign(s, {0}))))

\* RE_VALUE: ^(?:number|true|false|null)(?:\s*$|\s*(?:[,}\]#/]|/[^/*]))
\* (?:number|true|false|null)
ValueEnds(s) ==
    NumberEnds(s)
    \cup Word(s, {0}, <<116, 114, 117, 101>>)
    \cup Word(s, {0}, <<102, 97, 108, 115, 101>>)
    \cup Word(s, {0}, <<110, 117, 108, 108>>)

\* (?:$|[,}\]#/]|/[^/*]) from the positions P
ValueTail(s, P) ==
    \/ Len(s) \in P
    \/ Step(s, P, "delim") # {}
    \/ Step(s, Lit(s, P, 47), "nostar") # {}

RE_VALUE(s) == ValueTail(s, Star(s, ValueEnds(s), "space"))

\* RE_STR_NONE:
\* ^(?:[^\x00-\x1f\s"'{}\[\],:/#]|/[^\x00-\x1f\t\n/*])(?:[^\x00-\x1f\t\n]*[^\x00-\x1f\s"])?$
StrNoneRest(s, P) == P \cup Step(s, Star(s, P, "mid"), "end")

RE_STR_NONE(s) ==
    Len(s) \in StrNoneRest(s, Step(s, {0}, "bare") \cup Step(s, Lit(s, {0}, 47), "slash2"))

\* RE_STR_DOUBLE: ^([^\t\n"](?:[^\t\n"]*[^\t\n"])?|[\s\x08]+)$
StrDoubleRest(s, P) == P \cup Step(s, Star(s, P, "dq"), "dq")

RE_STR_DOUBLE(s) ==
    Len(s) \in (StrDoubleRest(s, Step(s, {0}, "dq")) \cup Plus(s, {0}, "ws"))

\* RE_HAS_NEWLINE: \n
RE_HAS_NEWLINE(s) == \E i \in 1..Len(s) : s[i] = 10

\* ([^']|'[^']|''[^'])*
MultilineUnit(s, P) ==
    Step(s, P, "noapos")
    \cup Step(s, Lit(s, P, 39), "noapos")
    \cup Step(s, Lit(s, Lit(s, P, 39), 39), "noapos")

RECURSIVE MultilineUnits(_, _)
MultilineUnits(s, P) ==
    IF MultilineUnit(s, P) \subseteq P THEN P
    ELSE MultilineUnits(s, P \cup MultilineUnit(s, P))

\* RE_STR_MULTILINE: ^([^']|'[^']|''[^'])+$
RE_STR_MULTILINE(s) == Len(s) > 0 /\ Len(s) \in MultilineUnits(s, {0})

\* (?:[^\x00-\x1f\s"'{}\[\],:/#]|/[^\x00-\x1f\s"'{}\[\],:/*])*
MemberUnit(s, P) == Step(s, P, "bare") \cup Step(s, Lit(s, P, 47), "member2")

RECURSIVE MemberUnits(_, _)
MemberUnits(s, P) ==
    IF MemberUnit(s, P) \subseteq P THEN P ELSE MemberUnits(s, P \cup MemberUnit(s, P))

\* RE_MEMBER_NONE: ^(?:A|/B)(?:(?:A|/B)*A)?$
MemberRest(s, P) == P \cup Step(s, MemberUnits(s, P), "bare")

RE_MEMBER_NONE(s) == Len(s) \in MemberRest(s, MemberUnit(s, {0}))

(***************************************************************************)
(* PrettyFormatter.  current_indent is a usize: a negative value n stands  *)
(* for the wrapped value 2^64 + n of a build without overflow checks.      *)
(***************************************************************************)
\* the indent unit of PrettyFormatter::new: two spaces
indent_unit == <<32, 32>>

\* fn indent: n times write_all(s); a wrapped n never finishes
RECURSIVE indent(_, _)
indent(s, n) ==
    IF s.err # "none" THEN s
    ELSE IF n < 0 THEN [s EXCEPT !.err = "hang"]
    ELSE IF n = 0 THEN s
    ELSE indent(write_all(s, indent_unit), n - 1)

\* self.current_indent -= 1
dec_indent(s) ==
    IF s.err # "none" THEN s
    ELSE IF s.current_indent = 0 /\ overflow_checks THEN [s EXCEPT !.err = "panic"]
    ELSE [s EXCEPT !.current_indent = @ - 1]

\* self.current_indent += 1
inc_indent(s) == [s EXCEPT !.current_indent = @ + 1]

\* indent(&mut self.writer, self.current_indent, self.indent)
indent_current(s) == indent(s, s.current_indent)

\* self.in_object = value
set_in_object(s, value) ==
    IF s.err # "none" THEN s ELSE [s EXCEPT !.in_object = value]

\* a try_write_bracket that writes the bracket and keeps it pending
write_bracket_keeping_it(s) ==
    IF s.err # "none" THEN s
    ELSE write_all([inc_indent(s) EXCEPT !.has_value = FALSE], <<s.next_bracket>>)

\* the second half of try_write_bracket: the indent grows, has_value is
\* cleared and the bracket is taken out of next_bracket and written
write_bracket(s) ==
    IF s.err # "none" THEN s
    ELSE write_all([inc_indent(s) EXCEPT !.has_value = FALSE, !.next_bracket = None],
                   <<s.next_bracket>>)

try_write_bracket(s) ==
    IF s.next_bracket # None THEN
        write_bracket(IF s.in_object
                      THEN set_in_object(indent_current(write_all(s, <<10>>)), FALSE)
                      ELSE s)
    ELSE s

\* the prologue shared by the scalar writers, begin_string and three of the
\* four string kinds: if self.in_object { write " "; self.in_object = false }
space_in_object(s) ==
    IF s.in_object THEN set_in_object(write_all(s, <<32>>), FALSE) ELSE s

\* write_null, write_bool, write_i8 .. write_u64, write_f32, write_f64:
\* the prologue, then the text of the literal
PrettyFormatter_write_literal(s, text) == write_all(space_in_object(s), text)

PrettyFormatter_begin_string(s) == write_all(space_in_object(s), <<QU>>)

PrettyFormatter_end_string(s) == write_all(s, <<QU>>)

\* StringKind without the test against RE_VALUE
StringKind_without_RE_VALUE(string) ==
    IF ~RE_STR_NONE(string) THEN
        IF ~RE_STR_DOUBLE(string) THEN
            IF RE_HAS_NEWLINE(string) THEN
                IF ~RE_STR_MULTILINE(string) THEN "DoubleQuoted"
                ELSE "MultilineTripleQuoted"
            ELSE "TripleQuoted"
        ELSE "DoubleQuoted"
    ELSE "Unquoted"

\* the quoting style PrettyFormatter::write_string chooses
StringKind(string) ==
    IF RE_VALUE(string) \/ ~RE_STR_NONE(string) THEN
        IF ~RE_STR_DOUBLE(string) THEN
            IF RE_HAS_NEWLINE(string) THEN
                IF ~RE_STR_MULTILINE(string) THEN "DoubleQuoted"
                ELSE "MultilineTripleQuoted"
            ELSE "TripleQuoted"
        ELSE "DoubleQuoted"
    ELSE "Unquoted"

\* the line loop of the MultilineTripleQuoted branch
RECURSIVE multiline_loop(_, _, _, _, _, _)
multiline_loop(s, bytes, i, start, has_content, has_newline) ==
    IF s.err # "none" \/ i = Len(bytes)
    THEN [s |-> s, start |-> start, has_newline |-> has_newline]
    ELSE IF bytes[i + 1] = 10 THEN
        LET s1 == IF has_content
                  THEN write_all(indent_current(s), SubSeq(bytes, start + 1, i + 1))
                  ELSE write_all(s, <<10>>)
        IN  multiline_loop(s1, bytes, i + 1, i + 1, FALSE, TRUE)
    ELSE IF bytes[i + 1] \in {9, 32, 13}
    THEN multiline_loop(s, bytes, i + 1, start, TRUE, has_newline)
    ELSE multiline_loop(s, bytes, i + 1, start, has_content, has_newline)

apos3 == <<39, 39, 39>>

\* if start != bytes.len() { indent; write bytes[start..] }
multiline_last_line(r, bytes) ==
    IF r.start # Len(bytes)
    THEN write_all(indent_current(r.s), SubSeqFrom(bytes, r.start + 1))
    ELSE r.s

\* if has_newline { write "\n" }
multiline_newline(s, has_newline) == IF has_newline THEN write_all(s, <<10>>) ELSE s

\* the MultilineTripleQuoted branch after its loop r: the last line, the
\* newline, the indent, the decrement and the closing quotes
multiline_rest(r, bytes) ==
    write_all(
        dec_indent(indent_current(
            multiline_newline(multiline_last_line(r, bytes), r.has_newline))),
        apos3)

\* the four branches of the match on kind
write_string_of_kind(s, kind, bytes) ==
    IF kind = "Unquoted" THEN
        write_all(space_in_object(s), bytes)
    ELSE IF kind = "DoubleQuoted" THEN
        write_escaped(space_in_object(s), bytes)
    ELSE IF kind = "TripleQuoted" THEN
        write_all(write_all(write_all(space_in_object(s), apos3), bytes), apos3)
    ELSE
        multiline_rest(
            multiline_loop(
                write_all(IF s.in_object
                          THEN indent_current(write_all(inc_indent(s), <<10>>))
                          ELSE s,
                          apos3 \o <<10>>),
                bytes, 0, 0, FALSE, FALSE),
            bytes)

PrettyFormatter_write_string(s, string) ==
    write_string_of_kind(s, StringKind(string), as_bytes(string))

PrettyFormatter_write_member_string(s, string) ==
    IF RE_MEMBER_NONE(string) THEN write_all(s, as_bytes(string))
    ELSE write_escaped(s, as_bytes(string))

PrettyFormatter_begin_array(s) == [s EXCEPT !.next_bracket = 91]

\* an end_array without the collapsed form
PrettyFormatter_end_array_uncollapsed(s) ==
    write_all([s EXCEPT !.next_bracket = None], <<91, 10, 93>>)

PrettyFormatter_end_array(s) ==
    IF s.next_bracket # None THEN
        LET a == [s EXCEPT !.next_bracket = None]
            b == IF a.in_object THEN write_all(a, <<32>>) ELSE a
        IN  write_all(b, <<91, 93>>)
    ELSE
        LET a == dec_indent(s)
            b == IF a.has_value THEN indent_current(write_all(a, <<10>>)) ELSE a
        IN  write_all(b, <<93>>)

PrettyFormatter_begin_array_value(s, first) ==
    indent_current(write_all(set_in_object(try_write_bracket(s), FALSE), <<10>>))

\* an end_array_value that leaves has_value as it is
end_array_value_without_flag(s) == s

PrettyFormatter_end_array_value(s) == [s EXCEPT !.has_value = TRUE]

PrettyFormatter_begin_object(s) == [s EXCEPT !.next_bracket = 123]

PrettyFormatter_end_object(s) ==
    IF s.next_bracket # None THEN
        LET a == [s EXCEPT !.next_bracket = None]
            b == IF a.in_object THEN write_all(a, <<32>>) ELSE a
        IN  write_all(b, <<123, 125>>)
    ELSE
        LET a == dec_indent(s)
            b == IF a.has_value THEN indent_current(write_all(a, <<10>>)) ELSE a
        IN  write_all(b, <<125>>)

\* a begin_object_key that does not start a line for the key
begin_object_key_on_the_same_line(s, first) == indent_current(try_write_bracket(s))

PrettyFormatter_begin_object_key(s, first) ==
    indent_current(write_all(try_write_bracket(s), <<10>>))

PrettyFormatter_begin_object_value(s) == write_all([s EXCEPT !.in_object = TRUE], <<58>>)

PrettyFormatter_end_object_value(s) == [s EXCEPT !.has_value = TRUE]

(***************************************************************************)
(* The Formatter trait's defaults, which are the CompactFormatter.         *)
(***************************************************************************)
Formatter_write_literal(s, text) == write_all(s, text)
Formatter_begin_string(s) == write_all(s, <<QU>>)
Formatter_end_string(s) == write_all(s, <<QU>>)
Formatter_begin_array(s) == write_all(s, <<91>>)
Formatter_end_array(s) == write_all(s, <<93>>)
\* a begin_array_value that writes the comma before every child
begin_array_value_with_comma(s, first) == write_all(s, <<44>>)

Formatter_begin_array_value(s, first) == IF first THEN s ELSE write_all(s, <<44>>)
Formatter_end_array_value(s) == s
Formatter_begin_object(s) == write_all(s, <<123>>)
Formatter_end_object(s) == write_all(s, <<125>>)
Formatter_begin_object_key(s, first) == IF first THEN s ELSE write_all(s, <<44>>)
Formatter_end_object_key(s) == s
Formatter_begin_object_value(s) == write_all(s, <<58>>)
Formatter_end_object_value(s) == s

(***************************************************************************)
(* The calls of the Serializer on its Formatter.  A call is a record       *)
(* [f, first, text]: the method, the flag given to begin_array_value and   *)
(* begin_object_key, and the text of a string or of a literal (what itoa   *)
(* and dtoa produce for a number).  Two more steps a handler can take are  *)
(* written as calls: key_must_be_a_string, which makes it return the       *)
(* error, and value.serialize, whose place in the handler is kept in mid.  *)
(***************************************************************************)
Pretty == mode = "Pretty"

FCall(f, first, text) == [f |-> f, first |-> first, text |-> text]

F0(f) == FCall(f, FALSE, <<>>)

LiteralWriters ==
    {"write_null", "write_bool", "write_i8", "write_i16", "write_i32", "write_i64",
     "write_u8", "write_u16", "write_u32", "write_u64", "write_f32", "write_f64"}

\* the entry of the call in calls
LogName(c) ==
    IF c.f \in {"begin_array_value", "begin_object_key"}
    THEN (IF c.f = "begin_array_value"
          THEN (IF c.first THEN "begin_array_value(true)" ELSE "begin_array_value(false)")
          ELSE (IF c.first THEN "begin_object_key(true)" ELSE "begin_object_key(false)"))
    ELSE c.f

PrettyFormatter_call(s, c) ==
    CASE c.f \in LiteralWriters -> PrettyFormatter_write_literal(s, c.text)
      [] c.f = "begin_string" -> PrettyFormatter_begin_string(s)
      [] c.f = "end_string" -> PrettyFormatter_end_string(s)
      [] c.f = "write_string" -> PrettyFormatter_write_string(s, c.text)
      [] c.f = "write_member_string" -> PrettyFormatter_write_member_string(s, c.text)
      [] c.f = "begin_array" -> PrettyFormatter_begin_array(s)
      [] c.f = "end_array" -> PrettyFormatter_end_array(s)
      [] c.f = "begin_array_value" -> PrettyFormatter_begin_array_value(s, c.first)
      [] c.f = "end_array_value" -> PrettyFormatter_end_array_value(s)
      [] c.f = "begin_object" -> PrettyFormatter_begin_object(s)
      [] c.f = "end_object" -> PrettyFormatter_end_object(s)
      [] c.f = "begin_object_key" -> PrettyFormatter_begin_object_key(s, c.first)
      [] c.f = "end_object_key" -> Formatter_end_object_key(s)
      [] c.f = "begin_object_value" -> PrettyFormatter_begin_object_value(s)
      [] c.f = "end_object_value" -> PrettyFormatter_end_object_value(s)

CompactFormatter_call(s, c) ==
    CASE c.f \in LiteralWriters -> Formatter_write_literal(s, c.text)
      [] c.f = "begin_string" -> Formatter_begin_string(s)
      [] c.f = "end_string" -> Formatter_end_string(s)
      [] c.f = "write_string" -> Formatter_write_string(s, c.text)
      [] c.f = "write_member_string" -> Formatter_write_member_string(s, c.text)
      [] c.f = "begin_array" -> Formatter_begin_array(s)
      [] c.f = "end_array" -> Formatter_end_array(s)
      [] c.f = "begin_array_value" -> Formatter_begin_array_value(s, c.first)
      [] c.f = "end_array_value" -> Formatter_end_array_value(s)
      [] c.f = "begin_object" -> Formatter_begin_object(s)
      [] c.f = "end_object" -> Formatter_end_object(s)
      [] c.f = "begin_object_key" -> Formatter_begin_object_key(s, c.first)
      [] c.f = "end_object_key" -> Formatter_end_object_key(s)
      [] c.f = "begin_object_value" -> Formatter_begin_object_value(s)
      [] c.f = "end_object_value" -> Formatter_end_object_value(s)

\* the call has returned: next_bracket as it is now is recorded
Returned(s) == [s EXCEPT !.brackets = Append(@, s.next_bracket)]

\* try!(self.formatter.f(&mut self.writer, ..).map_err(Error::io))
formatter_call(s, c) ==
    IF c.f = "key_must_be_a_string" THEN [s EXCEPT !.err = "KeyMustBeAString"]
    ELSE IF Pretty THEN Returned(PrettyFormatter_call(Call(s, LogName(c)), c))
    ELSE Returned(CompactFormatter_call(Call(s, LogName(c)), c))

\* the steps of a handler in order, up to the first that fails; r.s is the
\* Formatter and sink, r.mid what they were when value.serialize was reached
run_step(r, c) ==
    IF c.f = "value.serialize" THEN [r EXCEPT !.mid = r.s]
    ELSE [r EXCEPT !.s = formatter_call(r.s, c)]

RECURSIVE Run(_, _, _)
Run(r, steps, i) ==
    IF i > Len(steps) \/ r.s.err # "none" THEN r
    ELSE CHOOSE q \in { Run(x, steps, i + 1) : x \in {run_step(r, steps[i])} } : TRUE

(***************************************************************************)
(* The Serializer.  A value handed to it is a record [t, n, s, cat, hint]: *)
(* t names the Serializer method the value's Serialize implementation      *)
(* calls, n is an integer or bool payload, s a string payload (code        *)
(* points; for a finite float the text dtoa produces), cat the FpCategory  *)
(* of a float, hint the declared length of a container.  Each method is    *)
(* the sequence of steps it takes.                                         *)
(***************************************************************************)
Val(t, n, s, cat, hint) == [t |-> t, n |-> n, s |-> s, cat |-> cat, hint |-> hint]

RECURSIVE digits(_)
digits(n) == IF n < 10 THEN <<48 + n>> ELSE digits(n \div 10) \o <<48 + (n % 10)>>

\* itoa::write
itoa(n) == IF n < 0 THEN <<45>> \o digits(-n) ELSE digits(n)

IntWriter ==
    [i8 |-> "write_i8", i16 |-> "write_i16", i32 |-> "write_i32", i64 |-> "write_i64",
     u8 |-> "write_u8", u16 |-> "write_u16", u32 |-> "write_u32", u64 |-> "write_u64"]

IntTypes == DOMAIN IntWriter

write_null == FCall("write_null", FALSE, <<110, 117, 108, 108>>)

serialize_bool(value) ==
    << FCall("write_bool", FALSE,
             IF value THEN <<116, 114, 117, 101>> ELSE <<102, 97, 108, 115, 101>>) >>

\* serialize_i8 .. serialize_u64
serialize_int(t, value) == << FCall(IntWriter[t], FALSE, itoa(value)) >>

serialize_f32(v) ==
    IF v.cat \in {"Nan", "Infinite"} THEN <<write_null>>
    ELSE << FCall("write_f32", FALSE, v.s) >>

\* a serialize_f64 that does not classify its value
serialize_f64_unclassified(v) == << FCall("write_f64", FALSE, v.s) >>

serialize_f64(v) ==
    IF v.cat \in {"Nan", "Infinite"} THEN <<write_null>>
    ELSE << FCall("write_f64", FALSE, v.s) >>

format_escaped_str(value) == << FCall("write_string", FALSE, value) >>

serialize_str(value) == format_escaped_str(value)

serialize_char(value) == serialize_str(<<value>>)

serialize_unit == <<write_null>>

serialize_unit_struct == serialize_unit

serialize_none == serialize_unit

serialize_unit_variant(variant) == serialize_str(variant)

\* serialize_seq up to the creation of the Compound, and the Compound's state
serialize_seq(hint) ==
    IF hint = "Some(0)"
    THEN [steps |-> <<F0("begin_array"), F0("end_array")>>, state |-> "Empty"]
    ELSE [steps |-> <<F0("begin_array")>>, state |-> "First"]

serialize_map(hint) ==
    IF hint = "Some(0)"
    THEN [steps |-> <<F0("begin_object"), F0("end_object")>>, state |-> "Empty"]
    ELSE [steps |-> <<F0("begin_object")>>, state |-> "First"]

serialize_struct(len) == serialize_map(len)

\* the common opening of serialize_newtype_variant, serialize_tuple_variant
\* and serialize_struct_variant: the wrapper object up to its value
variant_prefix(variant) ==
    <<F0("begin_object"), FCall("begin_object_key", TRUE, <<>>)>>
    \o serialize_str(variant)
    \o <<F0("end_object_key"), F0("begin_object_value")>>

serialize_tuple_variant(variant, hint) ==
    [serialize_seq(hint) EXCEPT !.steps = variant_prefix(variant) \o @]

serialize_struct_variant(variant, hint) ==
    [serialize_map(hint) EXCEPT !.steps = variant_prefix(variant) \o @]

\* Compound::serialize_element applied to each u8, as serialize_bytes does
RECURSIVE bytes_elements(_, _, _)
bytes_elements(state, value, i) ==
    IF i > Len(value) THEN <<>>
    ELSE <<FCall("begin_array_value", state = "First", <<>>)>>
         \o serialize_int("u8", value[i])
         \o <<F0("end_array_value")>>
         \o bytes_elements("Rest", value, i + 1)

serialize_bytes(value) ==
    LET seq == serialize_seq(IF Len(value) = 0 THEN "Some(0)" ELSE "Some(n)")
    IN  seq.steps \o bytes_elements(seq.state, value, 1)
        \o (IF Len(value) = 0 THEN <<>> ELSE <<F0("end_array")>>)

ScalarTypes ==
    IntTypes \cup {"bool", "f32", "f64", "char", "str", "bytes", "unit", "unit_struct",
                   "none", "unit_variant"}

\* value.serialize(ser) for a value that opens no Compound
serialize_scalar(v) ==
    CASE v.t = "bool" -> serialize_bool(v.n = 1)
      [] v.t \in IntTypes -> serialize_int(v.t, v.n)
      [] v.t = "f32" -> serialize_f32(v)
      [] v.t = "f64" -> serialize_f64(v)
      [] v.t = "char" -> serialize_char(v.n)
      [] v.t = "str" -> serialize_str(v.s)
      [] v.t = "bytes" -> serialize_bytes(v.s)
      [] v.t = "unit" -> serialize_unit
      [] v.t = "unit_struct" -> serialize_unit_struct
      [] v.t = "none" -> serialize_none
      [] v.t = "unit_variant" -> serialize_unit_variant(v.s)

(***************************************************************************)
(* MapKeySerializer.  A key is a record [k, n, s, inner]: k names the      *)
(* method its Serialize implementation calls, inner the one called by the  *)
(* value inside a newtype struct.                                          *)
(***************************************************************************)
Key(k, n, s, inner) == [k |-> k, n |-> n, s |-> s, inner |-> inner]

\* a MapKeySerializer that refuses no key
key_accepted == <<>>

\* Err(key_must_be_a_string())
key_must_be_a_string == << F0("key_must_be_a_string") >>

MapKeySerializer_serialize_str(value) == << FCall("write_member_string", FALSE, value) >>

MapKeySerializer_serialize_unit_variant(variant) == serialize_str(variant)

\* MapKeySerializer::serialize_i8 .. serialize_u64
MapKeySerializer_serialize_int(t, value) ==
    <<F0("begin_string"), FCall(IntWriter[t], FALSE, itoa(value)), F0("end_string")>>

MapKeySerializer_serialize(k, key) ==
    CASE k = "str" -> MapKeySerializer_serialize_str(key.s)
      [] k = "unit_variant" -> MapKeySerializer_serialize_unit_variant(key.s)
      [] k \in IntTypes -> MapKeySerializer_serialize_int(k, key.n)
      [] OTHER -> key_must_be_a_string

\* serialize_newtype_struct hands the inner value the same MapKeySerializer
MapKeySerializer_serialize_newtype_struct(key) == MapKeySerializer_serialize(key.inner, key)

\* key.serialize(MapKeySerializer { ser })
key_serialize(key) ==
    IF key.k = "newtype_struct" THEN MapKeySerializer_serialize_newtype_struct(key)
    ELSE MapKeySerializer_serialize(key.k, key)

(***************************************************************************)
(* SpecStr: the string writers as functions of one string.  The strings    *)
(* under test are the concatenations of at most MaxLen tokens of one of    *)
(* the alphabets below; a token is a sequence of scalar values.            *)
(***************************************************************************)
\* control bytes, DEL, a letter, the quote and the backslash
EscAlpha ==
    {<<\h00>>, <<\h04>>, <<\h06>>, <<\h07>>, <<\h0f>>, <<\h7f>>, <<97>>, <<34>>, <<92>>}

\* scalar values of two, three and four UTF-8 bytes, and the newline
UniAlpha ==
    {<<97>>, <<10>>, <<\had>>, <<\he9>>, <<\h0600>>, <<\h2028>>, <<\h200e>>, <<\h20ac>>,
     <<\hfeff>>, <<\h1f600>>}

\* the pieces of the bare JSON literals
LitAlpha ==
    {<<116, 114, 117, 101>>, <<110, 117, 108, 108>>, <<102, 97, 108, 115, 101>>,
     <<49>>, <<48>>, <<46>>, <<101>>, <<45>>, <<32>>, <<44>>, <<97>>}

\* whitespace, quotes, delimiters and comment starts
QuoteAlpha ==
    {<<97>>, <<32>>, <<9>>, <<10>>, <<39>>, <<34>>, <<58>>, <<47>>, <<42>>, <<35>>}

Alphabets == {EscAlpha, UniAlpha, LitAlpha, QuoteAlpha}

RECURSIVE TokenSeqs(_, _)
TokenSeqs(A, n) ==
    IF n = 0 THEN {<<>>}
    ELSE LET shorter == TokenSeqs(A, n - 1)
         IN  shorter \cup {Append(ts, a) : ts \in {x \in shorter : Len(x) = n - 1}, a \in A}

Strings == UNION {{Flatten(ts) : ts \in TokenSeqs(A, MaxLen)} : A \in Alphabets}

\* the Formatter states a value can be written in: at top level, as an array
\* element, as an object value
PrettyContexts ==
    {[current_indent |-> 0, in_object |-> FALSE],
     [current_indent |-> 1, in_object |-> FALSE],
     [current_indent |-> 1, in_object |-> TRUE]}

StrInit ==
    /\ input \in Strings
    /\ mode = "none"
    /\ overflow_checks \in BOOLEAN
    /\ fail_at = -1
    /\ st = InitSt
    /\ stack = <<>>
    /\ ops = 0
    /\ last = [op |-> "init"]

\* Formatter::write_string of the CompactFormatter on the string
StrCompact ==
    /\ last.op = "init"
    /\ mode' = "Compact"
    /\ st' = Formatter_write_string(st, input)
    /\ last' = [op |-> "write_string"]
    /\ ops' = ops + 1
    /\ UNCHANGED <<overflow_checks, fail_at, stack, input>>

\* PrettyFormatter::write_string on the string, in one of the contexts
StrPretty ==
    /\ last.op = "init"
    /\ \E ctx \in PrettyContexts :
        /\ st' = PrettyFormatter_write_string(
                    [st EXCEPT !.current_indent = ctx.current_indent,
                               !.in_object = ctx.in_object], input)
        /\ last' = [op |-> "write_string", ctx |-> ctx]
    /\ mode' = "Pretty"
    /\ ops' = ops + 1
    /\ UNCHANGED <<overflow_checks, fail_at, stack, input>>

\* PrettyFormatter::write_member_string on the string
StrMember ==
    /\ last.op = "init"
    /\ mode' = "Pretty"
    /\ st' = PrettyFormatter_write_member_string([st EXCEPT !.current_indent = 1], input)
    /\ last' = [op |-> "write_member_string"]
    /\ ops' = ops + 1
    /\ UNCHANGED <<overflow_checks, fail_at, stack, input>>

StrNext == StrCompact \/ StrPretty \/ StrMember

SpecStr == StrInit /\ [][StrNext]_vars

(***************************************************************************)
(* Spec: one encode (to_writer / to_writer_pretty) of a value whose        *)
(* Serialize implementation drives the Serializer.  stack holds, innermost *)
(* last, the Compounds that are open and the handlers that are waiting for *)
(* a value they handed to value.serialize: [kind, state, phase].  Each     *)
(* action is one call of the implementation on the Serializer or on a      *)
(* Compound, run until it returns or until it hands control back by        *)
(* opening a Compound.                                                     *)
(***************************************************************************)
Frame(kind, state, phase) == [kind |-> kind, state |-> state, phase |-> phase]

SeqKinds == {"seq", "tuple_variant"}
MapKinds == {"map"}
StructKinds == {"struct", "struct_variant"}
CompoundKinds == SeqKinds \cup MapKinds \cup StructKinds
OpenTypes == CompoundKinds \cup {"newtype_variant"}

Str(s) == Val("str", 0, s, "-", "-")
Open(t, hint) == Val(t, 0, <<>>, "-", hint)

\* the values at the leaves of the trees; the leaves of one tree are equal
Leaves ==
    { Val("unit", 0, <<>>, "-", "-"),
      Val("bool", 1, <<>>, "-", "-"),
      Val("i64", -7, <<>>, "-", "-"),
      Val("f32", 0, <<78, 97, 78>>, "Nan", "-"),
      Val("f32", 0, <<48, 46, 53>>, "Normal", "-"),
      Val("f64", 0, <<105, 110, 102>>, "Infinite", "-"),
      Val("f64", 0, <<48, 46, 48>>, "Zero", "-"),
      Val("f64", 0, <<49, 46, 53>>, "Normal", "-"),
      Val("char", 97, <<>>, "-", "-"),
      Val("bytes", 0, <<1>>, "-", "-"),
      Str(<<97>>),
      Str(<<>>),
      Str(<<116, 114, 117, 101>>),
      Str(<<97, 9, 98>>),
      Str(<<97, 32, 98, 10, 99>>) }

\* the names of the variants; the variants of one tree have one name
Variants == { <<86>>, <<118, 34, 49>> }

Hints == {"None", "Some(0)", "Some(n)"}

\* the declared lengths a serialize_ method can be given
HintsOf(t) ==
    IF t \in {"seq", "map"} THEN {"None", "Some(0)"}
    ELSE IF t = "newtype_variant" THEN {"None"}
    ELSE {"Some(0)", "Some(n)"}

VariantTypes == {"tuple_variant", "struct_variant", "newtype_variant"}

Opens ==
    { Val(t, 0, IF t \in VariantTypes THEN n ELSE <<>>, "-", h) :
          t \in OpenTypes, h \in Hints, n \in Variants }

\* the keys a map entry can be given; the accepted keys of one tree are equal
GoodKeys ==
    { Key("str", 0, <<97>>, "-"), Key("str", 0, <<97, 32, 98>>, "-"),
      Key("u8", 12, <<>>, "-"), Key("unit_variant", 0, <<86, 9>>, "-"),
      Key("newtype_struct", -3, <<>>, "i32") }

BadKeyTypes ==
    {"seq", "tuple", "map", "struct", "bool", "f64", "char", "bytes", "unit", "some",
     "newtype_variant"}

BadKeys ==
    { Key(k, 0, <<>>, "-") : k \in BadKeyTypes } \cup { Key("newtype_struct", 0, <<>>, "bool") }

Keys == GoodKeys \cup BadKeys

FieldNames == { <<97>> }

Depth(stk) == Cardinality({ i \in 1..Len(stk) : stk[i].kind \in OpenTypes })

Top == stack[Len(stack)]

Pop(stk) == SubSeq(stk, 1, Len(stk) - 1)

\* where the value serialized next stands: at the root, as the element of an
\* array or as the value of an object entry
Position(stk) ==
    IF stk = <<>> THEN "root"
    ELSE IF stk[Len(stk)].kind \in SeqKinds \cup {"serialize_element"} THEN "element"
    ELSE "value"

\* the encode has neither returned nor failed
Running == st.err = "none" /\ ~ (stack = <<>> /\ ops > 0)

\* no leaf, variant or key has been serialized yet
NoLeaf == Val("-", 0, <<>>, "-", "-")
NoVariant == <<>>
NoKey == Key("-", 0, <<>>, "-")

\* the values the implementation can serialize at this point of the encode
Values ==
    (IF input.leaf = NoLeaf THEN Leaves ELSE {input.leaf})
    \cup IF Depth(stack) < MaxDepth
         THEN { v \in Opens :
                    (v.hint \in HintsOf(v.t))
                    /\ ((v.t \in VariantTypes /\ input.variant # NoVariant)
                            => v.s = input.variant) }
         ELSE {}

MapKeys == (IF input.key = NoKey THEN GoodKeys ELSE {input.key}) \cup BadKeys

\* the tree so far, with one more value or key
Chosen(v) ==
    IF v \in Leaves THEN [input EXCEPT !.leaf = v]
    ELSE IF v \in GoodKeys THEN [input EXCEPT !.key = v]
    ELSE IF v \in Opens /\ v.t \in VariantTypes THEN [input EXCEPT !.variant = v.s]
    ELSE input

\* a value has been serialized: the handlers waiting for it run to their end
RECURSIVE Complete(_)
Complete(stk) ==
    IF stk = <<>> THEN [stack |-> stk, steps |-> <<>>]
    ELSE LET top == stk[Len(stk)] IN
         CASE top.kind = "serialize_element" ->
                  [stack |-> Pop(stk), steps |-> <<F0("end_array_value")>>]
           [] top.kind = "serialize_value" ->
                  [stack |-> Pop(stk), steps |-> <<F0("end_object_value")>>]
           [] top.kind = "serialize_newtype_variant" ->
                  [Complete(Pop(stk)) EXCEPT
                       !.steps = <<F0("end_object_value"), F0("end_object")>> \o @]
           [] OTHER -> [stack |-> stk, steps |-> <<>>]

\* value.serialize(ser): a scalar is written and the waiting handlers
\* finish; a container leaves its Compound on the stack
Begin(stk, v) ==
    CASE v.t \in ScalarTypes ->
             [Complete(stk) EXCEPT !.steps = serialize_scalar(v) \o @]
      [] v.t = "seq" ->
             LET r == serialize_seq(v.hint)
             IN  [stack |-> Append(stk, Frame("seq", r.state, "-")), steps |-> r.steps]
      [] v.t = "map" ->
             LET r == serialize_map(v.hint)
             IN  [stack |-> Append(stk, Frame("map", r.state, "key")), steps |-> r.steps]
      [] v.t = "struct" ->
             LET r == serialize_struct(v.hint)
             IN  [stack |-> Append(stk, Frame("struct", r.state, "key")), steps |-> r.steps]
      [] v.t = "tuple_variant" ->
             LET r == serialize_tuple_variant(v.s, v.hint)
             IN  [stack |-> Append(stk, Frame("tuple_variant", r.state, "-")),
                  steps |-> r.steps]
      [] v.t = "struct_variant" ->
             LET r == serialize_struct_variant(v.s, v.hint)
             IN  [stack |-> Append(stk, Frame("struct_variant", r.state, "key")),
                  steps |-> r.steps]
      [] v.t = "newtype_variant" ->
             [stack |-> Append(stk, Frame("serialize_newtype_variant", "-", "-")),
              steps |-> variant_prefix(v.s)]

\* the place of value.serialize in a handler
value_serialize == F0("value.serialize")

\* The size of a tree counts one for each call that serializes it and one
\* more for its leaf value, its key and its variant name where these are
\* not the plainest ones.
PlainLeaf == Val("i64", -7, <<>>, "-", "-")
PlainKey == Key("str", 0, <<97>>, "-")
PlainVariant == <<86>>

Size(v) ==
    IF \/ v \in Leaves /\ input.leaf = NoLeaf /\ v # PlainLeaf
       \/ v \in GoodKeys /\ input.key = NoKey /\ v # PlainKey
       \/ v \in Opens /\ v.t \in VariantTypes /\ input.variant = NoVariant
                      /\ v.s # PlainVariant
    THEN 2 ELSE 1

\* the sink: one that never fails (-1), or one whose write number fail_at,
\* counted from 0, returns an error
FailAts == {-1} \cup 0..MaxFail

Init ==
    /\ mode \in {"Compact", "Pretty"}
    /\ overflow_checks \in (IF mode = "Pretty" THEN BOOLEAN ELSE {TRUE})
    /\ fail_at \in FailAts
    /\ input = [leaf |-> NoLeaf, variant |-> NoVariant, key |-> NoKey, lied |-> FALSE]
    /\ st = InitSt
    /\ stack = <<>>
    /\ ops = 0
    /\ last = [op |-> "init"]

\* the call gives a child to a container that was declared to have none:
\* the tree serialized is not the tree the declared lengths describe
Lied(op) ==
    op \in {"serialize_element", "serialize_key", "serialize_field"} /\ Top.state = "Empty"

\* one call of the implementation: its steps m.steps are run; if none fails
\* the Compounds and waiting handlers become m.stack
Do(m, l) ==
    /\ ops + Size(l.v) <= MaxOps
    /\ ops' = ops + Size(l.v)
    /\ input' = [Chosen(l.v) EXCEPT !.lied = @ \/ Lied(l.op)]
    /\ \E p \in {m} :
           \E r \in {Run([s |-> st, mid |-> st], p.steps, 1)} :
               /\ st' = r.s
               /\ stack' = (IF r.s.err = "none" THEN p.stack ELSE stack)
               /\ last' = [op |-> l.op, v |-> l.v, pos |-> l.pos, pre |-> st, mid |-> r.mid,
                           depth |-> Len(stack), steps |-> p.steps]
    /\ UNCHANGED <<mode, overflow_checks, fail_at>>

\* to_writer / to_writer_pretty: value.serialize(&mut ser)
to_writer ==
    /\ Running /\ stack = <<>>
    /\ \E v \in Values :
           Do(Begin(<<>>, v), [op |-> "to_writer", v |-> v, pos |-> "root"])

\* the payload of a newtype variant: value.serialize(&mut *self)
serialize_newtype_variant ==
    /\ Running /\ stack # <<>> /\ Top.kind = "serialize_newtype_variant"
    /\ \E v \in Values :
           Do(Begin(stack, v), [op |-> "serialize_newtype_variant", v |-> v, pos |-> "value"])

\* SerializeSeq::serialize_element, SerializeTuple::serialize_element,
\* SerializeTupleStruct::serialize_field, SerializeTupleVariant::serialize_field
serialize_element ==
    /\ Running /\ stack # <<>> /\ Top.kind \in SeqKinds
    /\ \E v \in Values :
           LET b == Begin(Pop(stack) \o <<[Top EXCEPT !.state = "Rest"],
                                          Frame("serialize_element", "-", "-")>>, v)
           IN  Do([b EXCEPT !.steps = <<FCall("begin_array_value", Top.state = "First", <<>>),
                                        value_serialize>> \o @],
                  [op |-> "serialize_element", v |-> v, pos |-> "element"])

\* SerializeMap::serialize_key up to its last step
serialize_key_steps(state, key) ==
    <<FCall("begin_object_key", state = "First", <<>>), value_serialize>>
    \o key_serialize(key)
    \o <<F0("end_object_key")>>

\* SerializeMap::serialize_key
serialize_key ==
    /\ Running /\ stack # <<>> /\ Top.kind \in MapKinds /\ Top.phase = "key"
    /\ \E key \in MapKeys :
           Do([stack |-> Pop(stack) \o <<[Top EXCEPT !.state = "Rest", !.phase = "value"]>>,
               steps |-> serialize_key_steps(Top.state, key)],
              [op |-> "serialize_key", v |-> key, pos |-> "key"])

\* SerializeMap::serialize_value
serialize_value ==
    /\ Running /\ stack # <<>> /\ Top.kind \in MapKinds /\ Top.phase = "value"
    /\ \E v \in Values :
           LET b == Begin(Pop(stack) \o <<[Top EXCEPT !.phase = "key"],
                                          Frame("serialize_value", "-", "-")>>, v)
           IN  Do([b EXCEPT !.steps = <<F0("begin_object_value"), value_serialize>> \o @],
                  [op |-> "serialize_value", v |-> v, pos |-> "value"])

\* SerializeStructVariant::serialize_field, which is SerializeStruct::serialize_field:
\* serialize_key of the name, then serialize_value
serialize_field ==
    /\ Running /\ stack # <<>> /\ Top.kind \in StructKinds
    /\ \E name \in FieldNames, v \in Values :
           LET b == Begin(Pop(stack) \o <<[Top EXCEPT !.state = "Rest"],
                                          Frame("serialize_value", "-", "-")>>, v)
               k == FCall("begin_object_key", Top.state = "First", <<>>)
           IN  Do([b EXCEPT !.steps = <<k>> \o key_serialize(Key("str", 0, name, "-"))
                                        \o <<F0("end_object_key"), F0("begin_object_value"),
                                             value_serialize>> \o @],
                  [op |-> "serialize_field", v |-> v, pos |-> "value"])

\* an end() that does not look at the state Empty
Compound_end_of_any_state(c) ==
    (IF c.kind \in SeqKinds THEN <<F0("end_array")>> ELSE <<F0("end_object")>>)
    \o (IF c.kind \in {"tuple_variant", "struct_variant"}
        THEN <<F0("end_object_value"), F0("end_object")>>
        ELSE <<>>)

\* an end() of a variant that leaves the wrapper object open
Compound_end_without_wrapper(c) ==
    IF c.state = "Empty" THEN <<>>
    ELSE IF c.kind \in SeqKinds THEN <<F0("end_array")>> ELSE <<F0("end_object")>>

Compound_end(c) ==
    (IF c.state = "Empty" THEN <<>>
     ELSE IF c.kind \in SeqKinds THEN <<F0("end_array")>> ELSE <<F0("end_object")>>)
    \o (IF c.kind \in {"tuple_variant", "struct_variant"}
        THEN <<F0("end_object_value"), F0("end_object")>>
        ELSE <<>>)

\* the end() of SerializeSeq, SerializeTuple, SerializeTupleStruct,
\* SerializeTupleVariant, SerializeMap, SerializeStruct, SerializeStructVariant
end ==
    /\ Running /\ stack # <<>> /\ Top.kind \in CompoundKinds
    /\ Top.kind \in MapKinds => Top.phase = "key"
    /\ Do([Complete(Pop(stack)) EXCEPT !.steps = Compound_end(Top) \o @],
          [op |-> "end", v |-> Top,
           pos |-> IF Top.kind \in {"tuple_variant", "struct_variant"} THEN "value"
                   ELSE Position(Pop(stack))])

Next ==
    \/ to_writer
    \/ serialize_newtype_variant
    \/ serialize_element
    \/ serialize_key
    \/ serialize_value
    \/ serialize_field
    \/ end

Spec == Init /\ [][Next]_vars

(***************************************************************************)
(* SpecFmt: Serializer::collect_str of a value at the root.  write! hands  *)
(* the Adapter to the value's Display implementation, which calls          *)
(* Adapter::write_str once for each fragment of its text and returns a     *)
(* fmt::Result; collect_str then matches on that result.  input is the     *)
(* sequence of fragments the implementation writes if nothing stops it;    *)
(* ops counts the write_str calls made.  The implementation is free to     *)
(* return an error of its own, to go on after a write_str that returned an *)
(* error, or to return Ok after one.  st.err = "io" stands for             *)
(* adapter.error = Some(err).                                              *)
(***************************************************************************)
MaxFragments == 3

Fragments == {<<97>>, <<98, 32>>, <<49>>, <<34>>, <<>>}

RECURSIVE FragmentSeqs(_)
FragmentSeqs(n) ==
    IF n = 0 THEN {<<>>}
    ELSE FragmentSeqs(n - 1)
         \cup {Append(fs, f) : fs \in {x \in FragmentSeqs(n - 1) : Len(x) = n - 1},
                               f \in Fragments}

FmtInit ==
    /\ input \in FragmentSeqs(MaxFragments)
    /\ mode \in {"Compact", "Pretty"}
    /\ overflow_checks = TRUE
    /\ fail_at \in FailAts
    /\ st = InitSt
    /\ stack = <<>>
    /\ ops = 0
    /\ last = [op |-> "init"]

\* self.formatter.write_string(self.writer, s)
formatter_write_string(s, string) ==
    IF mode = "Pretty" THEN PrettyFormatter_write_string(s, string)
    ELSE Formatter_write_string(s, string)

\* Display::fmt has not returned yet
Rendering == last.op \in {"init", "write_str"} /\ st.err # "panic"

\* Adapter::write_str, called by the Display implementation with its next
\* fragment: assert!(self.error.is_none()), then write_string; a failure is
\* kept in self.error and fmt::Error is returned
Adapter_write_str ==
    /\ Rendering /\ ops < Len(input)
    /\ st' = (IF st.err # "none" THEN [st EXCEPT !.err = "panic"]
              ELSE formatter_write_string(st, input[ops + 1]))
    /\ ops' = ops + 1
    /\ last' = [op |-> "write_str"]
    /\ UNCHANGED <<mode, overflow_checks, fail_at, stack, input>>

\* what collect_str returns when write! has returned display:
\* Ok(()) => assert!(adapter.error.is_none()), then Ok(());
\* Err(fmt::Error) => Err(Error::io(adapter.error.expect(..)))
collect_str_result(display, error) ==
    IF display = "Ok" THEN (IF error = "none" THEN "Ok" ELSE "panic")
    ELSE (IF error = "io" THEN "Io" ELSE "panic")

\* the Display implementation returns and collect_str matches on the result
collect_str ==
    /\ Rendering
    /\ \E display \in {"Ok", "Err"} :
           /\ display = "Ok" => (ops = Len(input) \/ st.err = "io")
           /\ last' = [op |-> "collect_str", display |-> display,
                       result |-> collect_str_result(display, st.err)]
    /\ UNCHANGED <<mode, overflow_checks, fail_at, st, stack, ops, input>>

FmtNext == Adapter_write_str \/ collect_str

SpecFmt == FmtInit /\ [][FmtNext]_vars

(***************************************************************************)
(* Reading text back, for the claims: standard string unescaping, line     *)
(* splitting and sub-sequence tests.  These state what is claimed; none    *)
(* of them is the program's.                                               *)
(***************************************************************************)
HexVal(d) ==
    IF d \in 48..57 THEN d - 48
    ELSE IF d \in 97..102 THEN d - 87
    ELSE IF d \in 65..70 THEN d - 55
    ELSE -1

IsHex(d) == HexVal(d) >= 0

RECURSIVE HexNumber(_)
HexNumber(ds) ==
    IF ds = <<>> THEN 0 ELSE 16 * HexNumber(SubSeq(ds, 1, Len(ds) - 1)) + HexVal(ds[Len(ds)])

\* position of the first byte c in b at or after i, 0 if none
RECURSIVE IndexFrom(_, _, _)
IndexFrom(b, c, i) ==
    IF i > Len(b) THEN 0 ELSE IF b[i] = c THEN i ELSE IndexFrom(b, c, i + 1)

Malformed == <<-1>>

\* the text a run of bytes between double quotes denotes
RECURSIVE Unescape(_)
Unescape(b) ==
    IF b = <<>> THEN <<>>
    ELSE IF b[1] = 34 THEN Malformed
    ELSE IF b[1] # 92 THEN <<b[1]>> \o Unescape(Tail(b))
    ELSE IF Len(b) < 2 THEN Malformed
    ELSE IF b[2] = 98 THEN <<8>> \o Unescape(SubSeqFrom(b, 3))
    ELSE IF b[2] = 116 THEN <<9>> \o Unescape(SubSeqFrom(b, 3))
    ELSE IF b[2] = 110 THEN <<10>> \o Unescape(SubSeqFrom(b, 3))
    ELSE IF b[2] = 102 THEN <<12>> \o Unescape(SubSeqFrom(b, 3))
    ELSE IF b[2] = 114 THEN <<13>> \o Unescape(SubSeqFrom(b, 3))
    ELSE IF b[2] = 34 THEN <<34>> \o Unescape(SubSeqFrom(b, 3))
    ELSE IF b[2] = 92 THEN <<92>> \o Unescape(SubSeqFrom(b, 3))
    ELSE IF b[2] # 117 \/ Len(b) < 3 THEN Malformed
    ELSE IF b[3] = 123 THEN
        LET close == IndexFrom(b, 125, 4)
        IN  IF close < 5 \/ \E k \in 4..(close - 1) : ~IsHex(b[k]) THEN Malformed
            ELSE encode_utf8(HexNumber(SubSeq(b, 4, close - 1)))
                 \o Unescape(SubSeqFrom(b, close + 1))
    ELSE IF Len(b) < 6 \/ \E k \in 3..6 : ~IsHex(b[k]) THEN Malformed
    ELSE encode_utf8(HexNumber(SubSeq(b, 3, 6))) \o Unescape(SubSeqFrom(b, 7))

\* decode of a double-quoted string token
DecodeQuoted(out) ==
    IF Len(out) >= 2 /\ out[1] = 34 /\ out[Len(out)] = 34
    THEN Unescape(SubSeq(out, 2, Len(out) - 1))
    ELSE Malformed

IsPrefix(p, b) == Len(p) <= Len(b) /\ SubSeq(b, 1, Len(p)) = p
IsSuffix(p, b) == Len(p) <= Len(b) /\ SubSeq(b, Len(b) - Len(p) + 1, Len(b)) = p
Contains(b, p) == \E i \in 0..(Len(b) - Len(p)) : SubSeq(b, i + 1, i + Len(p)) = p

\* the lines of b, split at every newline ("a\n" has the lines "a" and "")
RECURSIVE Lines(_)
Lines(b) ==
    LET nl == IndexFrom(b, 10, 1)
    IN  IF nl = 0 THEN <<b>>
        ELSE <<SubSeq(b, 1, nl - 1)>> \o Lines(SubSeqFrom(b, nl + 1))

\* b without leading spaces and newlines
RECURSIVE TrimLeft(_)
TrimLeft(b) == IF b # <<>> /\ b[1] \in {32, 10} THEN TrimLeft(Tail(b)) ELSE b

WroteString == last.op = "write_string"

\* C1: for every string, reading the Compact encoding back with standard
\* string unescaping yields the string: decode(encode(s)) = s.
C1_RoundTrip ==
    (WroteString /\ mode = "Compact") => DecodeQuoted(st.out) = as_bytes(input)

(***************************************************************************)
(* Claims about the string writers (SpecStr).                              *)
(***************************************************************************)
\* the bare JSON literals over the digits 0 and 1, built from the grammar
LitInts == {<<48>>, <<49>>, <<49, 48>>, <<49, 49>>}
LitFracs == {<<>>, <<46, 48>>, <<46, 49>>}
LitExps == {<<>>, <<101, 48>>, <<101, 49>>, <<101, 45, 49>>}
ExactLiterals ==
    {<<116, 114, 117, 101>>, <<102, 97, 108, 115, 101>>, <<110, 117, 108, 108>>}
    \cup {sg \o i \o f \o e : sg \in {<<>>, <<45>>}, i \in LitInts,
                              f \in LitFracs, e \in LitExps}

\* what may follow a literal for the text still to read as that literal:
\* nothing, or whitespace, then a delimiter or comment start
FollowsLiteral(rest) ==
    LET r == TrimLeft(rest)
    IN  r = <<>> \/ r[1] \in {44, 125, 93, 35, 47}

LiteralShaped(s) ==
    \E n \in 1..Len(s) :
        SubSeq(s, 1, n) \in ExactLiterals /\ FollowsLiteral(SubSeqFrom(s, n + 1))

\* the bytes of a value after the separator space or line break of its context
ValueBytes == TrimLeft(st.out)

\* C2: a string shaped like a bare JSON literal is never emitted bare (its
\* first byte is a quote), and a string that is exactly a literal is emitted
\* as that text between double quotes, in Compact and in Pretty mode.
C2_LiteralsQuoted ==
    (WroteString /\ LiteralShaped(input)) =>
        /\ st.err = "none"
        /\ ValueBytes # <<>> /\ ValueBytes[1] \in {34, 39}
        /\ input \in ExactLiterals => ValueBytes = <<34>> \o as_bytes(input) \o <<34>>

C2_Witness ==
    /\ WroteString /\ mode = "Pretty"
    /\ input = <<116, 114, 117, 101>>
    /\ st.out = <<34, 116, 114, 117, 101, 34>>

HasNewline(s) == \E i \in 1..Len(s) : s[i] = 10
HasTripleApos(s) == Contains(s, <<39, 39, 39>>)

\* out is a multi-line triple-quoted block whose content lines are indented
\* by ind: the opening delimiter on a line of its own, the content, then ind
\* and the closing delimiter
IsBlock(out, ind) ==
    \E pre \in {<<>>, <<10>> \o ind} :
        /\ IsPrefix(pre \o apos3 \o <<10>>, out)
        /\ IsSuffix(<<10>> \o ind \o apos3, out)
        /\ Len(out) >= Len(pre) + 4 + Len(ind) + 3

\* the content of such a block: the lines between the delimiters, each
\* without its indentation
BlockContent(out, ind) ==
    LET pre   == IF out[1] = 10 THEN <<10>> \o ind ELSE <<>>
        from  == Len(pre) + 5
        to    == Len(out) - Len(ind) - 3
        lines == Lines(SubSeq(out, from, to - 1))
    IN  [k \in 1..Len(lines) |->
            IF IsPrefix(ind, lines[k]) THEN SubSeqFrom(lines[k], Len(ind) + 1)
            ELSE lines[k]]

\* C5: in Pretty mode every string that contains a newline and no triple
\* apostrophe is rendered as a multi-line triple-quoted block.
C5_NewlineGivesBlock ==
    (WroteString /\ mode = "Pretty" /\ HasNewline(input) /\ ~HasTripleApos(input)) =>
        /\ st.err = "none"
        /\ \E n \in 0..3 : IsBlock(st.out, Repeat(indent_unit, n))

\* C6: the content of a multi-line block is the input, line by line.
C6_BlockReproducesInput ==
    (WroteString /\ mode = "Pretty" /\ StringKind(input) = "MultilineTripleQuoted"
     /\ st.err = "none") =>
        \E n \in 0..3 :
            /\ IsBlock(st.out, Repeat(indent_unit, n))
            /\ BlockContent(st.out, Repeat(indent_unit, n)) = Lines(as_bytes(input))

\* the byte-order mark and the bidi controls
BidiOrBom == {\hfeff, \h200e, \h200f} \cup (\h202a..\h202e) \cup (\h2066..\h2069)

\* \uXXXX of a code point of the basic plane
Escape4(c) ==
    <<92, 117, Hex(c \div 4096), Hex((c \div 256) % 16), Hex((c \div 16) % 16), Hex(c % 16)>>

\* C7: a string containing the byte-order mark or a bidi control is rendered
\* with the \uXXXX escape of that code point, in Compact and in Pretty mode.
C7_BidiEscaped ==
    WroteString =>
        \A i \in 1..Len(input) :
            input[i] \in BidiOrBom => Contains(st.out, Escape4(input[i]))

\* ---- the encodes of Spec ----
\* what the last call wrote to the sink, and the Formatter calls it made,
\* since the Formatter state s
Emitted(s) == SubSeqFrom(st.out, Len(s.out) + 1)
NewCalls(s) == SubSeqFrom(st.calls, Len(s.calls) + 1)

\* the last call handed a value to the Serializer
ValueOps ==
    {"to_writer", "serialize_element", "serialize_value", "serialize_field",
     "serialize_newtype_variant"}

NumericWriters == {"write_f32", "write_f64"} \cup { IntWriter[t] : t \in IntTypes }

NullText == <<110, 117, 108, 108>>

\* the separator of an object value in Pretty mode
SpaceAt(pos) == IF mode = "Pretty" /\ pos = "value" THEN <<32>> ELSE <<>>

SerializedFloat == last.op \in ValueOps /\ last.v.t \in {"f32", "f64"} /\ st.err = "none"

\* C3: serialize_f32 / serialize_f64 of a NaN or an infinite value calls
\* write_null and no numeric writer, and the value is emitted as null in
\* both modes; every other float goes to write_f32 / write_f64.
C3_NonFiniteIsNull ==
    SerializedFloat =>
        IF last.v.cat \in {"Nan", "Infinite"}
        THEN /\ NewCalls(last.mid)[1] = "write_null"
             /\ \A i \in 1..Len(NewCalls(last.mid)) : NewCalls(last.mid)[i] \notin NumericWriters
             /\ IsPrefix(SpaceAt(last.pos) \o NullText, Emitted(last.mid))
        ELSE /\ NewCalls(last.mid)[1] = (IF last.v.t = "f32" THEN "write_f32" ELSE "write_f64")
             /\ IsPrefix(SpaceAt(last.pos) \o last.v.s, Emitted(last.mid))

C3_Witness ==
    /\ SerializedFloat /\ last.v.t = "f64" /\ last.v.cat = "Infinite"
    /\ mode = "Pretty" /\ last.op = "serialize_value"
    /\ IsSuffix(<<58, 32>> \o NullText, st.out)

Brackets(kind) == IF kind \in SeqKinds THEN <<91, 93>> ELSE <<123, 125>>

\* the last call opened a sequence or a map
Opened == last.op \in ValueOps /\ last.v.t \in {"seq", "map"} /\ st.err = "none"

\* the last call ended a Compound into which no child was serialized
EndedChildless == last.op = "end" /\ last.v.state \in {"Empty", "First"} /\ st.err = "none"

\* C4: in Pretty mode a sequence or map with zero children is emitted as
\* exactly [] or {}, after one space when it is an object value: at once
\* when its declared length is Some(0), and by end() when the length is
\* unknown and no child was written, at every depth.
C4_EmptyContainers ==
    mode = "Pretty" =>
        /\ Opened /\ last.v.hint = "Some(0)" =>
               Emitted(last.mid) = SpaceAt(last.pos) \o Brackets(last.v.t)
        /\ Opened /\ last.v.hint # "Some(0)" => Emitted(last.mid) = <<>>
        /\ EndedChildless /\ last.v.state = "First" =>
               IsPrefix(SpaceAt(last.pos) \o Brackets(last.v.kind), Emitted(last.pre))
        /\ EndedChildless /\ last.v.state = "Empty" /\ last.v.kind \in {"seq", "map"} =>
               Emitted(last.pre) = <<>> \/ Emitted(last.pre)[1] \notin {91, 93, 123, 125}

C4_Witness ==
    /\ mode = "Pretty" /\ EndedChildless /\ last.v.state = "First" /\ last.v.kind = "seq"
    /\ last.pos = "value" /\ stack # <<>>
    /\ IsSuffix(<<58, 32, 91, 93>>, st.out)

KeyFailed == last.op = "serialize_key" /\ st.err = "KeyMustBeAString"

\* C8 as stated: when a key is refused the sink holds what it held before
\* serialize_key was called.
C8_SinkUntouched == KeyFailed => st.out = last.pre.out

\* what begin_object_key writes: the comma in Compact mode; the deferred open
\* bracket, newlines and indentation in Pretty mode
SeparatorBytes == IF mode = "Compact" THEN {44} ELSE {10, 32, 123}

\* C8: a map entry whose key is not a string, an integer, a unit variant or
\* a newtype struct around one of those fails with KeyMustBeAString, and no
\* byte of the key is emitted: the sink holds what it held before
\* serialize_key was called and then only what begin_object_key wrote, the
\* entry's separator.
C8_KeyMustBeAString ==
    /\ last.op = "serialize_key" /\ last.v \in BadKeys /\ st.err \notin {"io", "panic", "hang"} =>
           /\ st.err = "KeyMustBeAString"
           /\ st.out = last.mid.out
           /\ \A i \in 1..Len(Emitted(last.pre)) : Emitted(last.pre)[i] \in SeparatorBytes
           /\ mode = "Compact" =>
                  Emitted(last.pre) = (IF last.pre.calls[Len(last.pre.calls)] = "begin_object"
                                       THEN <<>> ELSE <<44>>)
    /\ last.op = "serialize_key" /\ last.v \in GoodKeys => st.err # "KeyMustBeAString"

C8_Witness ==
    /\ KeyFailed /\ last.v.k = "seq" /\ mode = "Compact"
    /\ Emitted(last.pre) = <<44>>

IntKey(key) == key.k \in IntTypes \/ (key.k = "newtype_struct" /\ key.inner \in IntTypes)

\* C9: an integer map key is emitted as exactly a double quote, its decimal
\* digits and a double quote: serialize_key writes no other byte after
\* begin_object_key, in both modes and whatever the preceding entry's value.
C9_IntegerKeyQuoted ==
    (last.op = "serialize_key" /\ IntKey(last.v) /\ st.err = "none") =>
        Emitted(last.mid) = <<34>> \o itoa(last.v.n) \o <<34>>

\* C10: in Pretty mode every object key is written by write_member_string
\* and never by write_string: the Formatter call that follows a
\* begin_object_key is never write_string.
C10_KeysThroughMemberPath ==
    mode = "Pretty" =>
        \A i \in 1..(Len(st.calls) - 1) :
            st.calls[i] \in {"begin_object_key(true)", "begin_object_key(false)"}
                => st.calls[i + 1] # "write_string"

(***************************************************************************)
(* Claims about the member keys (SpecStr).                                 *)
(***************************************************************************)
WroteMember == last.op = "write_member_string"

\* the key is emitted without quotes
EmittedBare == st.out = <<>> \/ st.out[1] # 34

\* a key that may be emitted bare: non-empty, with no control character, no
\* whitespace, no quote or apostrophe, no delimiter and no comment start
\* (#, //, /*) at any position
BareEligible(s) ==
    /\ s # <<>>
    /\ \A i \in 1..Len(s) :
        /\ ~IsCtrl(s[i]) /\ ~IsSpace(s[i])
        /\ s[i] \notin {34, 39, 123, 125, 91, 93, 44, 58, 35}
        /\ (s[i] = 47 /\ i < Len(s)) => s[i + 1] \notin {47, 42}

\* C11: write_member_string emits a key bare only if it is non-empty and
\* holds no control character, whitespace, quote, apostrophe, delimiter or
\* comment start at any position, and then as exactly its bytes; every other
\* key is emitted between double quotes.
C11_BareKeyIsClean ==
    WroteMember =>
        /\ EmittedBare => (BareEligible(input) /\ st.out = as_bytes(input))
        /\ ~BareEligible(input) =>
               (Len(st.out) >= 2 /\ st.out[1] = 34 /\ st.out[Len(st.out)] = 34)

(***************************************************************************)
(* Claims about the sequence of Formatter calls (Spec).                    *)
(***************************************************************************)
\* the encode has returned Ok
Done == st.err = "none" /\ stack = <<>> /\ ops > 0

\* the begin and end calls of calls from position i on are matched like
\* brackets; open holds the begins not yet ended, innermost last
RECURSIVE Bracketed(_, _, _)
Bracketed(calls, i, open) ==
    IF i > Len(calls) THEN open = <<>>
    ELSE IF calls[i] \in {"begin_array", "begin_object"}
    THEN Bracketed(calls, i + 1, Append(open, calls[i]))
    ELSE IF calls[i] \in {"end_array", "end_object"}
    THEN /\ open # <<>>
         /\ open[Len(open)] = (IF calls[i] = "end_array" THEN "begin_array"
                               ELSE "begin_object")
         /\ Bracketed(calls, i + 1, SubSeq(open, 1, Len(open) - 1))
    ELSE Bracketed(calls, i + 1, open)

CountCalls(names) == Cardinality({i \in 1..Len(st.calls) : st.calls[i] \in names})

\* C12: when an encode of a value tree (every container has the number of
\* children it declared) has returned Ok, the Formatter calls are
\* well-bracketed: each begin_array / begin_object has one matching end of
\* its kind, and a container is ended after every container begun inside it.
C12_WellBracketed == (Done /\ ~input.lied) => Bracketed(st.calls, 1, <<>>)

\* a finished encode with a variant's wrapper object around a sequence
\* written in the empty form
C12_Witness ==
    /\ Done /\ ~input.lied
    /\ CountCalls({"begin_object"}) >= 1
    /\ \E i \in 1..(Len(st.calls) - 1) :
           st.calls[i] = "begin_array" /\ st.calls[i + 1] = "end_array"
    /\ \E i \in 1..(Len(st.calls) - 1) :
           st.calls[i] = "end_array_value" /\ st.calls[i + 1] = "end_array"

Begins == {"begin_array", "begin_object"}

\* the calls that have returned Ok: all but a last one that failed
ReturnedOk(i) == i < Len(st.calls) \/ st.err = "none"

\* a bracket is pending at the return of call i exactly if call i is a begin,
\* and a begin is not called while a bracket is pending
PendingOnlyAfterBegin(i) ==
    /\ st.brackets[i] # None <=> st.calls[i] \in Begins
    /\ (i > 1 /\ st.calls[i] \in Begins) => st.brackets[i - 1] = None

BracketsWritten(frame) ==
    (IF frame.kind \in {"tuple_variant", "struct_variant", "serialize_newtype_variant"}
     THEN 1 ELSE 0)
    + (IF frame.kind \in CompoundKinds /\ frame.state = "Rest" THEN 1 ELSE 0)

RECURSIVE OpenWritten(_)
OpenWritten(stk) ==
    IF stk = <<>> THEN 0
    ELSE OpenWritten(SubSeq(stk, 1, Len(stk) - 1)) + BracketsWritten(stk[Len(stk)])

\* C14: in Pretty mode current_indent equals the number of open containers
\* whose open bracket has been written, whatever scalars, strings of any
\* quoting style and empty containers have been written, and it is never
\* decremented when it is 0 (no overflow panic, no wrapped value).
C14_IndentIsDepth ==
    (Pretty /\ ~input.lied) =>
        /\ st.err \notin {"panic", "hang"}
        /\ st.err = "none" => st.current_indent = OpenWritten(stack)

\* the value of an object entry has been begun and none of its bytes is
\* written yet: the last call is begin_object_value, or the begin of a
\* container right after it
ValuePending ==
    LET n == Len(st.calls)
    IN  /\ n >= 1
        /\ \/ st.calls[n] = "begin_object_value"
           \/ n >= 2 /\ st.calls[n] \in Begins /\ st.calls[n - 1] = "begin_object_value"

\* C15: in Pretty mode in_object is true exactly from begin_object_value
\* until the first byte of the value is written; once an object value has
\* been written (a scalar, a string of any quoting style, an empty or a
\* non-empty container) in_object is false.
C15_InObjectUntilValue ==
    (Pretty /\ st.err = "none") => (st.in_object <=> ValuePending)

(***************************************************************************)
(* The reference layout of Pretty output (Spec).  The tree is read from    *)
(* calls: a value is one write call or the calls from a begin to its end;  *)
(* a container is empty when its end follows its begin.                    *)
(***************************************************************************)
\* the text of the leaf value of the tree
RefScalar ==
    LET v == input.leaf
    IN  CASE v.t = "unit" -> <<110, 117, 108, 108>>
          [] v.t = "bool" -> IF v.n = 1 THEN <<116, 114, 117, 101>>
                             ELSE <<102, 97, 108, 115, 101>>
          [] v.t = "i64" -> <<45, 55>>
          [] v.t \in {"f32", "f64"} ->
                 IF v.cat \in {"Nan", "Infinite"} THEN <<110, 117, 108, 108>> ELSE v.s
          [] OTHER -> v.s

\* the text of every key of the tree
RefKey == <<97>>

\* the trees of numbers, booleans, null, bare single-line strings,
\* sequences and string-keyed maps and structs
RefDomain ==
    /\ input.variant = NoVariant
    /\ input.key \in {NoKey, PlainKey}
    /\ \/ input.leaf = NoLeaf
       \/ input.leaf.t \in {"unit", "bool", "i64", "f32", "f64"}
       \/ input.leaf = Str(<<97>>)

RECURSIVE RefUnits(_)
RefUnits(d) == IF d = 0 THEN <<>> ELSE <<32, 32>> \o RefUnits(d - 1)

RefLine(d) == <<10>> \o RefUnits(d)

RefOpen(call) == IF call = "begin_array" THEN <<91>> ELSE <<123>>
RefShut(call) == IF call = "begin_array" THEN <<93>> ELSE <<125>>

RefJoin(prefix, r) == [out |-> prefix \o r.out, next |-> r.next]

RefClose(r, d, call) ==
    [out |-> r.out \o RefLine(d) \o RefShut(call), next |-> r.next + 1]

RECURSIVE RefValue(_, _, _), RefKids(_, _, _), RefRest(_, _, _)
\* the value whose first call is calls[i], a child at depth d (the root at 0)
RefValue(i, d, pos) ==
    IF st.calls[i] \notin Begins
    THEN [out |-> (IF pos = "value" THEN <<32>> ELSE <<>>) \o RefScalar, next |-> i + 1]
    ELSE IF st.calls[i + 1] \in {"end_array", "end_object"}
    THEN [out |-> (IF pos = "value" THEN <<32>> ELSE <<>>)
                  \o RefOpen(st.calls[i]) \o RefShut(st.calls[i]),
          next |-> i + 2]
    ELSE RefClose(RefJoin((IF pos = "value" THEN RefLine(d) ELSE <<>>)
                              \o RefOpen(st.calls[i]),
                          RefKids(i + 1, d + 1, st.calls[i])),
                  d, st.calls[i])

\* the children from calls[i] on of a container opened by call, up to its end
RefKids(i, d, call) ==
    IF st.calls[i] \in {"end_array", "end_object"} THEN [out |-> <<>>, next |-> i]
    ELSE IF call = "begin_array"
    THEN RefRest(RefJoin(RefLine(d), RefValue(i + 1, d, "element")), d, call)
    ELSE RefRest(RefJoin(RefLine(d) \o RefKey \o <<58>>, RefValue(i + 4, d, "value")),
                 d, call)

\* the children after the child v
RefRest(v, d, call) == RefJoin(v.out, RefKids(v.next + 1, d, call))

\* C16: for every tree of numbers, booleans, null, bare single-line strings,
\* sequences and string-keyed maps, the Pretty output of a finished encode is
\* the reference layout: the root starts the output; a child at depth d is
\* preceded by a newline and d indent units; an entry is key, colon, then one
\* space and a scalar or an empty container, or a newline, d units and the
\* bracket of a non-empty container; a closing bracket is preceded by a
\* newline and d - 1 units; there is no comma.
C16_ReferenceLayout ==
    (Pretty /\ Done /\ ~input.lied /\ RefDomain) => st.out = RefValue(1, 0, "root").out

\* { a: [ -7 ] } as a struct: {\n  a:\n  [\n    -7\n  ]\n}
C16_Witness ==
    /\ Pretty /\ Done /\ ~input.lied /\ RefDomain
    /\ st.out = <<123, 10, 32, 32, 97, 58, 10, 32, 32, 91, 10, 32, 32, 32, 32, 45, 55,
                  10, 32, 32, 93, 10, 125>>

(***************************************************************************)
(* Claims about Compact output (Spec).                                     *)
(***************************************************************************)
Whitespace == {9, 10, 13, 32}

\* b from i on has a whitespace byte outside the double-quoted literals
RECURSIVE SpaceOutside(_, _, _)
SpaceOutside(b, i, quoted) ==
    IF i > Len(b) THEN FALSE
    ELSE IF quoted
    THEN (IF b[i] = 92 THEN SpaceOutside(b, i + 2, TRUE)
          ELSE SpaceOutside(b, i + 1, b[i] # 34))
    ELSE b[i] \in Whitespace \/ SpaceOutside(b, i + 1, b[i] = 34)

\* e starts with a double-quoted literal that denotes text and holds no raw
\* control byte
QuotedAtStart(e, text) ==
    \E k \in 2..Len(e) :
        /\ e[1] = 34 /\ e[k] = 34
        /\ Unescape(SubSeq(e, 2, k - 1)) = text
        /\ \A j \in 2..(k - 1) : e[j] >= 32

WithoutComma(e) == IF e # <<>> /\ e[1] = 44 THEN Tail(e) ELSE e

StringText(v) == IF v.t = "char" THEN as_bytes(<<v.n>>) ELSE as_bytes(v.s)

KeyText(key) == IF IntKey(key) THEN itoa(key.n) ELSE as_bytes(key.s)

SerializedString == last.op \in ValueOps /\ last.v.t \in {"str", "char"} /\ st.err = "none"

SerializedKey == last.op = "serialize_key" /\ last.v \in GoodKeys /\ st.err = "none"

\* C17: Compact output has no whitespace byte outside the string literals;
\* every string value and every map key (string, unit variant, integer) is
\* emitted between double quotes with escapes, never bare or triple-quoted.
C17_CompactQuoted ==
    mode = "Compact" =>
        /\ ~SpaceOutside(st.out, 1, FALSE)
        /\ SerializedString => QuotedAtStart(Emitted(last.mid), StringText(last.v))
        /\ SerializedKey =>
               /\ QuotedAtStart(WithoutComma(Emitted(last.pre)), KeyText(last.v))
               /\ st.out[Len(st.out)] = 34

\* {"V\t":"a b\nc" : a unit variant key with a tab, a value of two lines
C17_Witness ==
    /\ mode = "Compact" /\ SerializedString /\ last.op = "serialize_value"
    /\ st.out = <<123, 34, 86, 92, 116, 34, 58, 34, 97, 32, 98, 92, 110, 99, 34>>

(***************************************************************************)
(* Claims about the data-carrying variants (Spec).                         *)
(***************************************************************************)
\* a name without control characters between double quotes
RECURSIVE EscapeName(_)
EscapeName(b) ==
    IF b = <<>> THEN <<>>
    ELSE (IF b[1] \in {34, 92} THEN <<92, b[1]>> ELSE <<b[1]>>) \o EscapeName(Tail(b))

QuoteName(name) == <<34>> \o EscapeName(as_bytes(name)) \o <<34>>

\* {"V":
WrapperOpen(name) == <<123>> \o QuoteName(name) \o <<58>>

\* index of the byte of b that closes the bracket opened at b[1], 0 if none
RECURSIVE CloseOf(_, _, _, _)
CloseOf(b, i, depth, quoted) ==
    IF i > Len(b) THEN 0
    ELSE IF quoted
    THEN (IF b[i] = 92 THEN CloseOf(b, i + 2, depth, TRUE)
          ELSE CloseOf(b, i + 1, depth, b[i] # 34))
    ELSE IF b[i] \in {91, 123} THEN CloseOf(b, i + 1, depth + 1, FALSE)
    ELSE IF b[i] \in {93, 125} THEN (IF depth = 1 THEN i ELSE CloseOf(b, i + 1, depth - 1, FALSE))
    ELSE CloseOf(b, i + 1, depth, b[i] = 34)

\* the number of commas of b between the bracket at b[1] and its close
RECURSIVE EntryCommas(_, _, _, _)
EntryCommas(b, i, depth, quoted) ==
    IF i > Len(b) THEN 0
    ELSE IF quoted
    THEN (IF b[i] = 92 THEN EntryCommas(b, i + 2, depth, TRUE)
          ELSE EntryCommas(b, i + 1, depth, b[i] # 34))
    ELSE IF b[i] \in {91, 123} THEN EntryCommas(b, i + 1, depth + 1, FALSE)
    ELSE IF b[i] \in {93, 125} THEN EntryCommas(b, i + 1, depth - 1, FALSE)
    ELSE (IF b[i] = 44 /\ depth = 1 THEN 1 ELSE 0) + EntryCommas(b, i + 1, depth, b[i] = 34)

OpenedVariant == last.op \in ValueOps /\ last.v.t \in VariantTypes /\ st.err = "none"

EndedVariant ==
    last.op = "end" /\ last.v.kind \in {"tuple_variant", "struct_variant"} /\ st.err = "none"

\* the close bracket of the inner container, unless it was written with the open one
InnerClose(frame) ==
    IF frame.state = "Empty" THEN <<>>
    ELSE IF frame.kind = "tuple_variant" THEN <<93>> ELSE <<125>>

\* the encode has returned Ok and its root value is a data-carrying variant
RootVariantDone ==
    /\ Done /\ input.key.k # "unit_variant" /\ Len(st.calls) >= 3
    /\ st.calls[1] = "begin_object" /\ st.calls[2] = "begin_object_key(true)"
    /\ st.calls[3] = "write_string"

\* the payload of the root variant: what stands between {"V": and the last }
Payload == SubSeq(st.out, Len(WrapperOpen(input.variant)) + 1, Len(st.out) - 1)

\* C18: in Compact mode a data-carrying variant is emitted as {"V": payload }:
\* an object with one entry whose key is the variant name; the payload of a
\* tuple variant is a sequence and that of a struct variant an object, also
\* with zero fields; end() closes the inner container unless it was written
\* in the empty form, then closes the wrapper object exactly once.
C18_VariantWrapper ==
    (mode = "Compact" /\ ~input.lied) =>
        /\ OpenedVariant =>
               Emitted(last.mid) =
                   WrapperOpen(last.v.s)
                   \o (IF last.v.t = "newtype_variant" THEN <<>>
                       ELSE IF last.v.hint = "Some(0)"
                       THEN (IF last.v.t = "tuple_variant" THEN <<91, 93>> ELSE <<123, 125>>)
                       ELSE (IF last.v.t = "tuple_variant" THEN <<91>> ELSE <<123>>))
        /\ EndedVariant =>
               /\ IsPrefix(InnerClose(last.v) \o <<125>>, Emitted(last.pre))
               /\ \A i \in (Len(InnerClose(last.v)) + 1)..Len(Emitted(last.pre)) :
                      Emitted(last.pre)[i] = 125
        /\ RootVariantDone =>
               /\ IsPrefix(WrapperOpen(input.variant), st.out)
               /\ CloseOf(st.out, 1, 0, FALSE) = Len(st.out)
               /\ st.out[Len(st.out)] = 125
               /\ EntryCommas(st.out, 1, 0, FALSE) = 0
               /\ EndedVariant /\ last.depth = 1 /\ last.v.kind = "tuple_variant" =>
                      /\ Payload[1] = 91
                      /\ CloseOf(Payload, 1, 0, FALSE) = Len(Payload)
               /\ EndedVariant /\ last.depth = 1 /\ last.v.kind = "struct_variant" =>
                      /\ Payload[1] = 123
                      /\ CloseOf(Payload, 1, 0, FALSE) = Len(Payload)

\* {"V":[-7,-7]} : a tuple variant of two fields
C18_Witness ==
    /\ mode = "Compact" /\ ~input.lied /\ RootVariantDone /\ EndedVariant /\ last.depth = 1
    /\ st.out = <<123, 34, 86, 34, 58, 91, 45, 55, 44, 45, 55, 93, 125>>

(***************************************************************************)
(* Claims about a sink that fails (Spec).                                  *)
(***************************************************************************)
\* a count of writes from which the failing write is out of reach
NeverFails == 0 - (MaxFail + 2) * (MaxOps + 2) * 8

\* the output after the last call had it been made on a sink that does not
\* fail: the steps of the call, run again from the state before it
UnfailingOut == Run([s |-> [last.pre EXCEPT !.writes = NeverFails], mid |-> last.pre],
                    last.steps, 1).s.out

Failed == st.err = "io"

\* C19: when a write to the sink fails, the encode returns an IO error and
\* issues no further write: the sink holds exactly the writes issued before
\* the failing one, in order, a prefix of what the same encode writes to a
\* sink that never fails; a failure is never swallowed and no IO error is
\* returned without one.
C19_FailureStopsWrites ==
    /\ Failed =>
           /\ fail_at >= 0 /\ st.writes = fail_at
           /\ ~Running
           /\ IsPrefix(last.pre.out, st.out)
           /\ IsPrefix(st.out, UnfailingOut)
           /\ Len(st.out) < Len(UnfailingOut)
    /\ fail_at >= 0 /\ ~Failed => st.writes <= fail_at
    /\ fail_at >= 0 /\ st.writes = fail_at /\ last.op # "init" /\ st.err = "none" =>
           UnfailingOut = st.out

\* the fourth write fails inside the second call of a Pretty encode
C19_Witness ==
    /\ Failed /\ fail_at = 3 /\ Pretty /\ ops >= 2
    /\ Len(st.out) > Len(last.pre.out)
    /\ Len(UnfailingOut) > Len(st.out) + 2

(***************************************************************************)
(* Claims about the encoding of the output (SpecStr).                      *)
(***************************************************************************)
IsContinuation(b) == b \in 128..191

\* b from i on is well-formed UTF-8: every lead byte has its continuation
\* bytes, no continuation byte stands alone, no scalar value is overlong, a
\* surrogate or above U+10FFFF
RECURSIVE IsUtf8From(_, _)
IsUtf8From(b, i) ==
    IF i > Len(b) THEN TRUE
    ELSE IF b[i] < 128 THEN IsUtf8From(b, i + 1)
    ELSE IF b[i] \in 194..223
    THEN i + 1 <= Len(b) /\ IsContinuation(b[i + 1]) /\ IsUtf8From(b, i + 2)
    ELSE IF b[i] \in 224..239
    THEN /\ i + 2 <= Len(b) /\ IsContinuation(b[i + 1]) /\ IsContinuation(b[i + 2])
         /\ b[i] = 224 => b[i + 1] >= 160
         /\ b[i] = 237 => b[i + 1] <= 159
         /\ IsUtf8From(b, i + 3)
    ELSE IF b[i] \in 240..244
    THEN /\ i + 3 <= Len(b) /\ IsContinuation(b[i + 1]) /\ IsContinuation(b[i + 2])
         /\ IsContinuation(b[i + 3])
         /\ b[i] = 240 => b[i + 1] >= 144
         /\ b[i] = 244 => b[i + 1] <= 143
         /\ IsUtf8From(b, i + 4)
    ELSE FALSE

IsUtf8(b) == IsUtf8From(b, 1)

\* C20: for a string that is valid UTF-8, the bytes write_string and
\* write_member_string produce, in Compact and in Pretty mode, are valid
\* UTF-8: no part of a multi-byte sequence is emitted without the rest and
\* no continuation byte is taken for the start of a character.
C20_OutputIsUtf8 ==
    (last.op # "init" /\ IsUtf8(as_bytes(input))) => IsUtf8(st.out)

\* the euro sign is copied, U+2028 and U+1F600 are escaped
C20_Witness ==
    /\ last.op = "write_string" /\ mode = "Compact"
    /\ input = <<8364, 8232, 128512>>
    /\ IsUtf8(as_bytes(input))
    /\ IsPrefix(<<34, 226, 130, 172, 92, 117, 50, 48, 50, 56, 92, 117>>, st.out)

(***************************************************************************)
(* Claims about the quoting styles of PrettyFormatter::write_string        *)
(* (SpecStr).                                                              *)
(***************************************************************************)
\* the string is not written bare
MustBeQuoted(s) == RE_VALUE(s) \/ ~RE_STR_NONE(s)

NoTabNewlineQuote(s) == \A i \in 1..Len(s) : s[i] \notin {9, 10, 34}

WrotePrettyString == last.op = "write_string" /\ mode = "Pretty"

\* C21: in Pretty mode a string that must be quoted and holds no tab, no
\* newline and no double quote is emitted as one double-quoted, escaped
\* line, the empty string included.
C21_DoubleQuotedLine ==
    (WrotePrettyString /\ MustBeQuoted(input) /\ NoTabNewlineQuote(input)) =>
        /\ Len(ValueBytes) >= 2
        /\ ValueBytes[1] = 34 /\ ValueBytes[Len(ValueBytes)] = 34
        /\ DecodeQuoted(ValueBytes) # Malformed
        /\ \A i \in 1..Len(ValueBytes) : ValueBytes[i] # 10

(***************************************************************************)
(* Claims about the escapes of a double-quoted string (SpecStr).           *)
(***************************************************************************)
\* the escape of a control byte, of the quote and of the backslash; any
\* other byte of the ASCII range as it is
OwnEscape(b) ==
    CASE b = 8 -> <<92, 98>>
      [] b = 9 -> <<92, 116>>
      [] b = 10 -> <<92, 110>>
      [] b = 12 -> <<92, 102>>
      [] b = 13 -> <<92, 114>>
      [] b = 34 -> <<92, 34>>
      [] b = 92 -> <<92, 92>>
      [] OTHER -> IF b < 32 THEN Escape4(b) ELSE <<b>>

RECURSIVE OwnEscapes(_)
OwnEscapes(b) == IF b = <<>> THEN <<>> ELSE OwnEscape(b[1]) \o OwnEscapes(Tail(b))

IsAscii(s) == \A i \in 1..Len(s) : s[i] < 128

\* a control byte followed by a byte with which it forms, as a big-endian
\* pair, a code point that write_char_escape escapes
RawPairAt(s, i) == i < Len(s) /\ s[i] < 32 /\ EscapedRange(s[i] * 256 + s[i + 1])

\* C22: in a double-quoted string each byte 0x00-0x1F, the quote and the
\* backslash is replaced by its own escape (a mnemonic escape or \u00XX),
\* whatever byte follows it.
C22_OwnEscape ==
    (WroteString /\ mode = "Compact" /\ IsAscii(input)) =>
        st.out = <<34>> \o OwnEscapes(input) \o <<34>>

\* the code points of two UTF-8 bytes that are to be escaped
Unsafe2 == (128..159) \cup {173} \cup (1536..1540) \cup {1807}

\* the code points of three UTF-8 bytes that are to be escaped
Unsafe3 ==
    {6068, 6069} \cup (8204..8207) \cup (8232..8239) \cup (8288..8303) \cup {65279}
    \cup (65520..65535)

\* \u{XXXXXX} of a code point
Escape6(c) ==
    <<92, 117, 123, Hex(c \div 1048576), Hex((c \div 65536) % 16), Hex((c \div 4096) % 16),
      Hex((c \div 256) % 16), Hex((c \div 16) % 16), Hex(c % 16), 125>>

\* what a double-quoted string holds for the scalar value c
ExpectedScalar(c) ==
    IF c < 128 THEN OwnEscape(c)
    ELSE IF c < 65536 THEN (IF c \in Unsafe2 \cup Unsafe3 THEN Escape4(c) ELSE encode_utf8(c))
    ELSE Escape6(c)

RECURSIVE ExpectedScalars(_)
ExpectedScalars(s) ==
    IF s = <<>> THEN <<>> ELSE ExpectedScalar(s[1]) \o ExpectedScalars(Tail(s))

NoRawPair(s) == \A i \in 1..Len(s) : ~RawPairAt(s, i)

WroteCompact == WroteString /\ mode = "Compact"

\* C23: in a double-quoted string a code point of two UTF-8 bytes in an
\* unsafe range (U+0080-U+009F, U+00AD, U+0600-U+0604, U+070F) is emitted as
\* \uXXXX of the code point, and every other one as its two bytes.
C23_TwoByteEscapes ==
    (WroteCompact /\ NoRawPair(input) /\ \A i \in 1..Len(input) : input[i] < 2048) =>
        st.out = <<34>> \o ExpectedScalars(input) \o <<34>>

\* the scalar values of s are of three or four UTF-8 bytes, but for letters
\* and newlines
WideOrPlain(s) == \A i \in 1..Len(s) : s[i] >= 2048 \/ s[i] \in {10, 97}

\* the bytes write_char_escape reports to have read at each scalar value of
\* three or four bytes of s
ConsumedCounts(s) ==
    \A i \in 1..Len(s) :
        s[i] >= 2048 =>
            char_escape(as_bytes(SubSeqFrom(s, i))).bytes_read = Len(encode_utf8(s[i]))

\* C24: in a double-quoted string a code point of three UTF-8 bytes in an
\* unsafe range is emitted as \uXXXX of the code point and every other one
\* as its three bytes; a code point of four bytes is emitted as \u{XXXXXX}
\* with the six hex digits of the code point; write_char_escape reports 3
\* and 4 bytes read.
C24_WideEscapes ==
    (WroteCompact /\ WideOrPlain(input)) =>
        /\ st.out = <<34>> \o ExpectedScalars(input) \o <<34>>
        /\ ConsumedCounts(input)

\* the euro sign is copied, U+2028 and U+1F600 are escaped with 4 and 6 digits
C24_Witness ==
    /\ WroteCompact /\ WideOrPlain(input)
    /\ input = <<8364, 8232, 128512>>
    /\ st.out = <<34, 226, 130, 172, 92, 117, 50, 48, 50, 56,
                  92, 117, 123, 48, 49, 102, 54, 48, 48, 125, 34>>

\* position of the first ''' of b at or after i, 0 if none
RECURSIVE TripleAposFrom(_, _)
TripleAposFrom(b, i) ==
    IF i + 2 > Len(b) THEN 0
    ELSE IF SubSeq(b, i, i + 2) = <<39, 39, 39>> THEN i
    ELSE TripleAposFrom(b, i + 1)

TripleKinds == {"TripleQuoted", "MultilineTripleQuoted"}

\* C25: whenever PrettyFormatter::write_string chooses TripleQuoted or
\* MultilineTripleQuoted, the string holds no ''' and does not end with an
\* apostrophe, so that the first ''' after the opening delimiter is the
\* closing one.
C25_TripleNeverClosesEarly ==
    (WrotePrettyString /\ st.err = "none" /\ StringKind(input) \in TripleKinds) =>
        /\ ~HasTripleApos(input)
        /\ input = <<>> \/ input[Len(input)] # 39
        /\ TripleAposFrom(ValueBytes, 4) = Len(ValueBytes) - 2

(***************************************************************************)
(* Claims about the children of a container (Spec).                        *)
(***************************************************************************)
ChildBegins ==
    {"begin_array_value(true)", "begin_array_value(false)",
     "begin_object_key(true)", "begin_object_key(false)"}

FirstBegins == {"begin_array_value(true)", "begin_object_key(true)"}

CloseCalls == {"end_array", "end_object"}

\* begin_array_value / begin_object_key is given first = TRUE for the first
\* child of the innermost open container and FALSE for every later one;
\* given[k] tells whether the k-th open container has a child already
RECURSIVE FirstFlags(_, _, _)
FirstFlags(calls, i, given) ==
    IF i > Len(calls) THEN TRUE
    ELSE IF calls[i] \in Begins THEN FirstFlags(calls, i + 1, Append(given, FALSE))
    ELSE IF calls[i] \in CloseCalls
    THEN given # <<>> /\ FirstFlags(calls, i + 1, SubSeq(given, 1, Len(given) - 1))
    ELSE IF calls[i] \in ChildBegins
    THEN /\ given # <<>>
         /\ (calls[i] \in FirstBegins) = ~given[Len(given)]
         /\ FirstFlags(calls, i + 1, [given EXCEPT ![Len(given)] = TRUE])
    ELSE FirstFlags(calls, i + 1, given)

\* the number of children of each container, in the order the containers
\* are opened; open holds the indices of the containers that are open
RECURSIVE ChildCounts(_, _, _, _)
ChildCounts(calls, i, open, counts) ==
    IF i > Len(calls) THEN counts
    ELSE IF calls[i] \in Begins
    THEN ChildCounts(calls, i + 1, Append(open, Len(counts) + 1), Append(counts, 0))
    ELSE IF calls[i] \in CloseCalls
    THEN ChildCounts(calls, i + 1, SubSeq(open, 1, Len(open) - 1), counts)
    ELSE IF calls[i] \in ChildBegins
    THEN ChildCounts(calls, i + 1, open, [counts EXCEPT ![open[Len(open)]] = @ + 1])
    ELSE ChildCounts(calls, i + 1, open, counts)

\* the number of commas at the level of each bracket pair of b, outside the
\* string literals, in the order the brackets are opened; <<-1>> if a comma
\* stands outside every bracket
RECURSIVE CommaCounts(_, _, _, _, _)
CommaCounts(b, i, quoted, open, counts) ==
    IF i > Len(b) THEN counts
    ELSE IF quoted
    THEN (IF b[i] = 92 THEN CommaCounts(b, i + 2, TRUE, open, counts)
          ELSE CommaCounts(b, i + 1, b[i] # 34, open, counts))
    ELSE IF b[i] \in {91, 123}
    THEN CommaCounts(b, i + 1, FALSE, Append(open, Len(counts) + 1), Append(counts, 0))
    ELSE IF b[i] \in {93, 125}
    THEN CommaCounts(b, i + 1, FALSE, SubSeq(open, 1, Len(open) - 1), counts)
    ELSE IF b[i] = 44
    THEN (IF open = <<>> THEN <<-1>>
          ELSE CommaCounts(b, i + 1, FALSE, open,
                           [counts EXCEPT ![open[Len(open)]] = @ + 1]))
    ELSE CommaCounts(b, i + 1, b[i] = 34, open, counts)

\* one comma less than children in every container that has children
CommasBetween(children, commas) ==
    /\ Len(children) = Len(commas)
    /\ \A k \in 1..Len(children) :
           commas[k] = (IF children[k] = 0 THEN 0 ELSE children[k] - 1)

\* no comma stands after an open bracket, before a close bracket or after
\* another comma
RECURSIVE CommasInside(_, _, _)
CommasInside(b, i, quoted) ==
    IF i > Len(b) THEN TRUE
    ELSE IF quoted
    THEN (IF b[i] = 92 THEN CommasInside(b, i + 2, TRUE)
          ELSE CommasInside(b, i + 1, b[i] # 34))
    ELSE /\ b[i] = 44 => /\ i > 1 /\ b[i - 1] \notin {91, 123, 44}
                          /\ i < Len(b) => b[i + 1] \notin {93, 125, 44}
         /\ CommasInside(b, i + 1, b[i] = 34)

\* C26: begin_array_value / begin_object_key receive first = true for exactly
\* the first child of each container and false for every later child,
\* whatever containers are nested in earlier children; in Compact mode a
\* container with n >= 1 children has n - 1 commas at its own level, between
\* the children.
C26_FirstChildOnly ==
    (st.err = "none" /\ ~input.lied) =>
        /\ FirstFlags(st.calls, 1, <<>>)
        /\ mode = "Compact" =>
               /\ CommasBetween(ChildCounts(st.calls, 1, <<>>, <<>>),
                                CommaCounts(st.out, 1, FALSE, <<>>, <<>>))
               /\ CommasInside(st.out, 1, FALSE)

\* [[-7],-7 : the second child of the outer sequence follows a nested one
C26_Witness ==
    /\ st.err = "none" /\ ~input.lied /\ mode = "Compact"
    /\ st.out = <<91, 91, 45, 55, 93, 44, 45, 55>>
    /\ st.calls[Len(st.calls) - 2] = "begin_array_value(false)"

\* C27: every Compound causes exactly one closing bracket for its container,
\* whatever the declared length and the number of children serialized: a
\* container opened with Some(0) is closed once even if children are then
\* serialized into it.  So there are never more end_array / end_object calls
\* than begin calls, and as many when the encode has returned Ok.
C27_OneClosePerCompound ==
    /\ CountCalls(CloseCalls) <= CountCalls(Begins)
    /\ Done => /\ CountCalls(CloseCalls) = CountCalls(Begins)
               /\ Bracketed(st.calls, 1, <<>>)

\* b[i] is preceded by a newline and spaces only
RECURSIVE OnOwnLine(_, _)
OnOwnLine(b, i) ==
    IF i <= 1 THEN FALSE
    ELSE IF b[i - 1] = 32 THEN OnOwnLine(b, i - 1)
    ELSE b[i - 1] = 10

\* every closing bracket of b stands right after its open bracket or on a
\* line of its own (no string of these encodes holds a bracket)
ClosesOnOwnLine(b) ==
    \A i \in 1..Len(b) :
        b[i] \in {93, 125} =>
            \/ i > 1 /\ b[i - 1] = (IF b[i] = 93 THEN 91 ELSE 123)
            \/ OnOwnLine(b, i)

\* the last call is an end() whose container has its open bracket written
EndedWritten ==
    /\ last.op = "end" /\ st.err = "none"
    /\ last.v.state # "Empty" /\ last.pre.next_bracket = None

\* C28: in a successful Pretty encode has_value is true whenever end_array /
\* end_object runs with no pending bracket, although the flag is shared by
\* all levels and reset when a nested bracket is written: the closing bracket
\* of a container whose open bracket was written is preceded by a newline
\* and the indentation.
C28_HasValueAtEnd ==
    (Pretty /\ st.err = "none") =>
        /\ EndedWritten => last.pre.has_value
        /\ ClosesOnOwnLine(st.out)

\* [[-7]] : the inner bracket resets the flag of the outer sequence
C28_Witness ==
    /\ Pretty /\ Done /\ EndedWritten
    /\ st.out = <<91, 10, 32, 32, 91, 10, 32, 32, 32, 32, 45, 55, 10, 32, 32, 93, 10, 93>>

(***************************************************************************)
(* Claims about collect_str (SpecFmt).                                     *)
(***************************************************************************)
\* collect_str has returned Ok after the implementation wrote all its text
CollectedAll == last.op = "collect_str" /\ last.result = "Ok" /\ ops = Len(input)

\* C29: collect_str of a value whose Display implementation writes its text
\* in any number of fragments emits the bytes serialize_str emits for the
\* concatenated text: one string token, with one quoting decision.
C29_OneToken ==
    (CollectedAll /\ fail_at = -1) =>
        st.out = formatter_write_string(InitSt, Flatten(input)).out

\* C30: collect_str returns the IO error exactly when a write to the sink
\* failed during rendering and Ok otherwise, whatever the Display
\* implementation does; the assert! of write_str and of collect_str and the
\* expect of collect_str never fail.
C30_IoErrorIffWriteFailed ==
    /\ st.err # "panic"
    /\ last.op = "collect_str" =>
           /\ last.result # "panic"
           /\ (last.result = "Io") = (st.err = "io")
           /\ (last.result = "Ok") = (st.err = "none")
====
